---------------------------- MODULE Spec2Model ----------------------------
(***************************************************************************)
(* A model of devr (src/src/devr/cli.py): the change-set resolver          *)
(* (_staged_files, _changed_files, _run_git, _is_git_repo), the file       *)
(* filter (_filter_py, _existing_files) and the check, fix and security    *)
(* workflows; and of the helpers they rest on, each run on its own:        *)
(* find_venv (src/src/devr/venv.py), load_config (src/src/devr/config.py), *)
(* install_project and write_precommit (cli.py).                           *)
(*                                                                         *)
(* Text is a sequence of one-character strings, so that splitlines, strip  *)
(* and endswith are computed as the code computes them.  The environment   *)
(* (git, the file system, the external tools) is read at the step where    *)
(* the code reads it and answers nondeterministically.                     *)
(***************************************************************************)
EXTENDS Integers, Sequences, FiniteSets, TLC

VARIABLES
    cmd,                \* the entry point that is running
    pc,                 \* position in its code
    opts,               \* the command-line flags of the command
    cfg,                \* the DevrConfig the command loaded
    venv_dir,           \* find_venv's answer: "unset", "none" or "found"
    unstaged,           \* _changed_files: result of `git diff --name-only`
    tracked_lines,      \* _changed_files: the tracked side
    git_repo_cache,     \* check: the _is_git_repo cache, a dict keyed by root
    changed_candidates, \* result of _staged_files / _changed_files
    files,              \* check: the scoped targets
    fs,                 \* the file states _existing_files observed
    gitlog,             \* the arguments of every git query issued
    git_how,            \* how each query of the resolver ended
    git_out,            \* the lines the queries of the resolver printed
    calls,              \* every tool invocation, with the code it returned
    out,                \* every line echoed to the user
    exit_code,          \* the process exit status (NotExited while running)
    env                 \* what a helper run on its own reads: its arguments,
                        \* the interpreter's state and the files on disk

vars == <<cmd, env, pc, opts, cfg, venv_dir, unstaged, tracked_lines,
          git_repo_cache, changed_candidates, files, fs, gitlog, git_how,
          git_out, calls, out, exit_code>>

-----------------------------------------------------------------------------
(* Bounds of the model.                                                    *)

\* Lines per git output when a resolver function is called on its own.
MaxLines == 2
\* External tools return a code in 0..MaxCode.
MaxCode == 2
\* How many times in a row write_precommit is called.
MaxRuns == 2

-----------------------------------------------------------------------------
(* Text.                                                                   *)

NL == "\n"

\* The characters str.strip() removes that occur in the model's text.
Whitespace == {" ", "\t", "\r", NL}

A_PY == <<"a", ".", "p", "y">>
A_PY_PADDED == <<" ", "a", ".", "p", "y", " ">>
B_PYI == <<"b", ".", "p", "y", "i">>
C_MD == <<"c", ".", "m", "d">>
BLANK == <<" ">>

\* The lines git may print when a resolver function is called on its own.
LineUniverse == {A_PY, A_PY_PADDED, B_PYI, BLANK}
\* The lines git may print inside a check run.
CheckLineUniverse == {A_PY, B_PYI, C_MD, BLANK}

SeqsUpTo(S, n) == UNION {[1..k -> S] : k \in 0..n}

RECURSIVE Unlines(_)
\* What git writes for a list of lines: each line followed by a newline.
Unlines(ls) ==
    IF ls = <<>> THEN <<>> ELSE Head(ls) \o <<NL>> \o Unlines(Tail(ls))

RECURSIVE SplitFrom(_, _, _)
SplitFrom(s, i, cur) ==
    IF i > Len(s)
    THEN IF cur = <<>> THEN <<>> ELSE <<cur>>
    ELSE IF s[i] = NL
         THEN <<cur>> \o SplitFrom(s, i + 1, <<>>)
         ELSE SplitFrom(s, i + 1, Append(cur, s[i]))

\* str.splitlines()
SplitLines(s) == SplitFrom(s, 1, <<>>)

RECURSIVE LStrip(_)
LStrip(s) ==
    IF s # <<>> /\ Head(s) \in Whitespace THEN LStrip(Tail(s)) ELSE s

RECURSIVE RStrip(_)
RStrip(s) ==
    IF s # <<>> /\ s[Len(s)] \in Whitespace
    THEN RStrip(SubSeq(s, 1, Len(s) - 1))
    ELSE s

\* str.strip()
Strip(s) == RStrip(LStrip(s))

\* str.endswith(suffix)
EndsWith(s, suffix) ==
    /\ Len(s) >= Len(suffix)
    /\ SubSeq(s, Len(s) - Len(suffix) + 1, Len(s)) = suffix

RECURSIVE StripNonBlank(_)
\* [line.strip() for line in lines if line.strip()]
StripNonBlank(lines) ==
    IF lines = <<>> THEN <<>>
    ELSE LET s == Strip(Head(lines))
         IN  (IF s # <<>> THEN <<s>> ELSE <<>>) \o StripNonBlank(Tail(lines))

Range(s) == {s[i] : i \in 1..Len(s)}

RECURSIVE FromKeysKeepLast(_)
\* A de-duplication that keeps each entry at its last occurrence.
FromKeysKeepLast(s) ==
    IF s = <<>> THEN <<>>
    ELSE IF Head(s) \in Range(Tail(s))
         THEN FromKeysKeepLast(Tail(s))
         ELSE <<Head(s)>> \o FromKeysKeepLast(Tail(s))

RECURSIVE FromKeysFrom(_, _)
FromKeysFrom(s, seen) ==
    IF s = <<>> THEN <<>>
    ELSE IF Head(s) \in seen
         THEN FromKeysFrom(Tail(s), seen)
         ELSE <<Head(s)>> \o FromKeysFrom(Tail(s), seen \cup {Head(s)})

\* list(dict.fromkeys(s)): every key once, in insertion order.
FromKeys(s) == FromKeysFrom(s, {})

-----------------------------------------------------------------------------
(* git.                                                                    *)

Stdouts(lines, n) == {Unlines(ls) : ls \in SeqsUpTo(lines, n)}

\* How subprocess.run(["git", ...], timeout=10) can end: the executable is
\* missing (OSError), the timeout elapses (TimeoutExpired), or git exits,
\* here with status 128 after printing a line.
GitFailures ==
    { [kind |-> "oserror", returncode |-> 0, stdout |-> <<>>],
      [kind |-> "timeout", returncode |-> 0, stdout |-> <<>>],
      [kind |-> "completed", returncode |-> 128, stdout |-> Unlines(<<A_PY>>)] }

GitOutcomes(stdouts) ==
    GitFailures \cup
    {[kind |-> "completed", returncode |-> 0, stdout |-> s] : s \in stdouts}

ResolverOutcomes == GitOutcomes(Stdouts(LineUniverse, MaxLines))
\* Inside a check run git prints nothing, a single line, or one path twice.
CheckOutcomes ==
    GitOutcomes({<<>>, Unlines(<<A_PY, A_PY>>)}
                \cup {Unlines(<<l>>) : l \in CheckLineUniverse})

\* The outcomes git can produce in the run at hand.
Outcomes == IF cmd = "check" THEN CheckOutcomes ELSE ResolverOutcomes

\* rev-parse --is-inside-work-tree prints one word; only its exit matters.
RevParseOutcomes ==
    GitFailures \cup
    {[kind |-> "completed", returncode |-> 0, stdout |-> <<"t", NL>>]}

\* git_repo_cache: dict[str, bool] = {}, and its only key, str(root.resolve()).
EmptyCache == [k \in {} |-> FALSE]
ROOT == "root"

None == [isNone |-> TRUE, stdout |-> <<>>]

\* An except clause that lets TimeoutExpired through.
CaughtOSErrorOnly == {"oserror"}

\* _run_git, line 210: except (OSError, subprocess.TimeoutExpired)
Caught == {"oserror", "timeout"}

\* _run_git: whether subprocess.run's exception leaves _run_git.
Raises(raw) == raw.kind # "completed" /\ raw.kind \notin Caught

\* A subprocess.run without a timeout, which waits for a git that never ends.
HangsUntimed(raw) == raw.kind = "timeout"

\* _run_git, line 208: timeout=10.  A git that outlasts ten seconds is killed
\* and shows as TimeoutExpired, so subprocess.run never waits forever.
Hangs(raw) == FALSE

\* _run_git does not return: subprocess.run is still waiting, or what it
\* raised got past the except clause.
NoReturn(raw) == Hangs(raw) \/ Raises(raw)
NoReturnPc(raw) == IF Hangs(raw) THEN "hung" ELSE "raised"

\* _run_git: the completed process when git exited 0, None otherwise.
RunGit(raw) ==
    IF raw.kind # "completed" THEN None
    ELSE IF raw.returncode # 0 THEN None
    ELSE [isNone |-> FALSE, stdout |-> raw.stdout]

\* An _is_git_repo that takes every root for a work tree.
InsideWorkTreeAlways(raw) == TRUE

\* _is_git_repo, lines 222-224: _run_git(root, ["rev-parse", ...]) is not None
InsideWorkTree(raw) == ~RunGit(raw).isNone

DIFF_HEAD == <<"diff", "--name-only", "HEAD">>
DIFF == <<"diff", "--name-only">>
DIFF_CACHED == <<"diff", "--name-only", "--cached">>
REV_PARSE == <<"rev-parse", "--is-inside-work-tree">>
LS_FILES == <<"ls-files", "--others", "--exclude-standard">>

\* How a git query ended.
How(raw) ==
    IF raw.kind = "completed"
    THEN (IF raw.returncode = 0 THEN "ok" ELSE "nonzero")
    ELSE raw.kind

\* The record of one git query: its arguments and how it ended.
Logged(args, raw) ==
    /\ gitlog' = Append(gitlog, args)
    /\ git_how' = Append(git_how, How(raw))

\* _run_git does not return, and neither does any caller up to the entry
\* point.
Propagate(args, raw) ==
    /\ Logged(args, raw)
    /\ pc' = NoReturnPc(raw)
    /\ UNCHANGED <<unstaged, tracked_lines, git_repo_cache,
                   changed_candidates, git_out>>

\* Where staged(root)/changed(root) return to.
ReturnPc == IF cmd = "check" THEN "check_filter" ELSE "done"

\* _staged_files
StagedFiles ==
    /\ pc = "staged_files"
    /\ \E raw \in Outcomes :
         IF NoReturn(raw) THEN Propagate(DIFF_CACHED, raw)
         ELSE LET proc == RunGit(raw)
              IN  /\ Logged(DIFF_CACHED, raw)
                  /\ changed_candidates' =
                        IF proc.isNone THEN <<>>
                        ELSE StripNonBlank(SplitLines(proc.stdout))
                  /\ git_out' = SplitLines(proc.stdout)
                  /\ pc' = ReturnPc
                  /\ UNCHANGED <<unstaged, tracked_lines, git_repo_cache>>
    /\ UNCHANGED <<cmd, env, opts, cfg, venv_dir, files, fs, calls, out, exit_code>>

\* Where _changed_files goes once the tracked side is known (line 250).
AfterTracked(lines) == IF lines = <<>> THEN "cf_is_git_repo" ELSE "cf_untracked"

\* _changed_files, line 235: git diff --name-only HEAD
ChangedDiffHead ==
    /\ pc = "cf_diff_head"
    /\ \E raw \in Outcomes :
         IF NoReturn(raw) THEN Propagate(DIFF_HEAD, raw)
         ELSE LET tracked == RunGit(raw)
              IN  /\ Logged(DIFF_HEAD, raw)
                  /\ IF tracked.isNone
                     THEN /\ pc' = "cf_diff"
                          /\ UNCHANGED <<tracked_lines, git_out>>
                     ELSE /\ tracked_lines' = SplitLines(tracked.stdout)
                          /\ git_out' = SplitLines(tracked.stdout)
                          /\ pc' = AfterTracked(tracked_lines')
                  /\ UNCHANGED <<unstaged, git_repo_cache, changed_candidates>>
    /\ UNCHANGED <<cmd, env, opts, cfg, venv_dir, files, fs, calls, out, exit_code>>

\* _changed_files, line 237: git diff --name-only
ChangedDiff ==
    /\ pc = "cf_diff"
    /\ \E raw \in Outcomes :
         IF NoReturn(raw) THEN Propagate(DIFF, raw)
         ELSE /\ Logged(DIFF, raw)
              /\ unstaged' = RunGit(raw)
              /\ pc' = "cf_diff_cached"
              /\ UNCHANGED <<tracked_lines, git_repo_cache, changed_candidates,
                             git_out>>
    /\ UNCHANGED <<cmd, env, opts, cfg, venv_dir, files, fs, calls, out, exit_code>>

\* proc.stdout.splitlines() of a query that succeeded, nothing otherwise.
LinesOf(proc) == IF proc.isNone THEN <<>> ELSE SplitLines(proc.stdout)

\* Fallback lines with the staged-index diff ahead of the no-base diff.
FallbackLinesStagedFirst(unstaged_proc, staged_proc) ==
    LinesOf(staged_proc) \o LinesOf(unstaged_proc)

\* fallback_lines, lines 241-245: unstaged, then staged.
FallbackLines(unstaged_proc, staged_proc) ==
    LinesOf(unstaged_proc) \o LinesOf(staged_proc)

\* _changed_files, lines 238-246: git diff --name-only --cached and the
\* union of the two fallbacks.
ChangedDiffCached ==
    /\ pc = "cf_diff_cached"
    /\ \E raw \in Outcomes :
         IF NoReturn(raw) THEN Propagate(DIFF_CACHED, raw)
         ELSE LET staged == RunGit(raw)
                  fallback_lines == FallbackLines(unstaged, staged)
              IN  /\ Logged(DIFF_CACHED, raw)
                  /\ IF unstaged.isNone /\ staged.isNone
                     THEN /\ changed_candidates' = <<>>
                          /\ pc' = ReturnPc
                          /\ UNCHANGED <<tracked_lines, git_out>>
                     ELSE /\ tracked_lines' = StripNonBlank(fallback_lines)
                          /\ git_out' = fallback_lines
                          /\ pc' = AfterTracked(tracked_lines')
                          /\ UNCHANGED changed_candidates
                  /\ unstaged' = None
                  /\ UNCHANGED git_repo_cache
    /\ UNCHANGED <<cmd, env, opts, cfg, venv_dir, files, fs, calls, out, exit_code>>

\* _changed_files, line 250, with _is_git_repo: the tracked side is empty,
\* so ask git whether root is inside a work tree; the cache holds nothing yet.
ChangedIsGitRepo ==
    /\ pc = "cf_is_git_repo"
    /\ \E raw \in RevParseOutcomes :
         IF NoReturn(raw) THEN Propagate(REV_PARSE, raw)
         ELSE LET inside_work_tree == InsideWorkTree(raw)
              IN  /\ Logged(REV_PARSE, raw)
                  /\ git_repo_cache' =
                        IF cmd = "check" THEN (ROOT :> inside_work_tree)
                        ELSE git_repo_cache
                  /\ IF inside_work_tree
                     THEN /\ pc' = "cf_untracked"
                          /\ UNCHANGED changed_candidates
                     ELSE /\ changed_candidates' = <<>>
                          /\ pc' = ReturnPc
                  /\ UNCHANGED <<unstaged, tracked_lines, git_out>>
    /\ UNCHANGED <<cmd, env, opts, cfg, venv_dir, files, fs, calls, out, exit_code>>

\* _changed_files, lines 253-262: git ls-files --others --exclude-standard,
\* then the stripped, de-duplicated union.
ChangedUntracked ==
    /\ pc = "cf_untracked"
    /\ \E raw \in Outcomes :
         IF NoReturn(raw) THEN Propagate(LS_FILES, raw)
         ELSE LET untracked == RunGit(raw)
                  untracked_lines ==
                      IF untracked.isNone THEN <<>>
                      ELSE SplitLines(untracked.stdout)
                  combined == StripNonBlank(tracked_lines \o untracked_lines)
              IN  /\ Logged(LS_FILES, raw)
                  /\ git_out' = git_out \o untracked_lines
                  /\ changed_candidates' = FromKeys(combined)
                  /\ tracked_lines' = <<>>
                  /\ pc' = ReturnPc
                  /\ UNCHANGED <<unstaged, git_repo_cache>>
    /\ UNCHANGED <<cmd, env, opts, cfg, venv_dir, files, fs, calls, out, exit_code>>

ChangedFiles ==
    \/ ChangedDiffHead
    \/ ChangedDiff
    \/ ChangedDiffCached
    \/ ChangedIsGitRepo
    \/ ChangedUntracked

-----------------------------------------------------------------------------
(* The resolver functions called on their own.                             *)

NotExited == -1
NoOpts == [fix |-> FALSE, staged |-> FALSE, changed |-> FALSE, fast |-> FALSE,
           no_tests |-> FALSE, fail_fast |-> FALSE]
\* DevrConfig()
DefaultConfig == [venv_path |-> ".venv",
                  formatter |-> "ruff", typechecker |-> "mypy",
                  coverage_min |-> 85, coverage_branch |-> TRUE,
                  run_tests |-> TRUE]

InitLocals ==
    /\ env = <<>>
    /\ cfg = DefaultConfig
    /\ venv_dir = "unset"
    /\ unstaged = None
    /\ tracked_lines = <<>>
    /\ git_repo_cache = EmptyCache
    /\ changed_candidates = <<>>
    /\ files = <<>>
    /\ fs = <<>>
    /\ gitlog = <<>>
    /\ git_how = <<>>
    /\ git_out = <<>>
    /\ calls = <<>>
    /\ out = <<>>
    /\ exit_code = NotExited

InitChangeSet ==
    /\ cmd \in {"staged", "changed"}
    /\ pc = IF cmd = "staged" THEN "staged_files" ELSE "cf_diff_head"
    /\ opts = NoOpts
    /\ InitLocals

NextChangeSet == StagedFiles \/ ChangedFiles

SpecChangeSet == InitChangeSet /\ [][NextChangeSet]_vars

-----------------------------------------------------------------------------
(* The file filter.                                                        *)

PY == <<".", "p", "y">>
PYI == <<".", "p", "y", "i">>

\* _filter_py
FilterPy(fl) == SelectSeq(fl, LAMBDA f : EndsWith(f, PY) \/ EndsWith(f, PYI))

\* What the file system says of one path: whether root / path resolves to a
\* location inside root, and whether a regular file is there.
FileStates == [inside : BOOLEAN, is_file : BOOLEAN]

\* An existence test without the path-traversal guard.
ExistsIgnoringRoot(state) == state.is_file

\* _existing_files, one entry: relative_to(root) does not raise, and is_file().
Exists(state) == state.inside /\ state.is_file

\* _existing_files, with the file system answering f[file] for each entry.
ExistingFiles(f, fl) == SelectSeq(fl, LAMBDA file : Exists(f[file]))

-----------------------------------------------------------------------------
(* Running tools.                                                          *)

Codes == 0..MaxCode

\* An argument of a tool invocation: an option word or a file target.
Opt(word) == [opt |-> word]
File(path) == [file |-> path]
Files(paths) == [i \in 1..Len(paths) |-> File(paths[i])]

\* The whole-project target ".".
DOT == <<".">>

\* run_module(venv_dir, module, args, cwd=root) returning code.
Invocation(module, args, code) == [module |-> module, args |-> args, code |-> code]

\* The file targets among the arguments of an invocation.
Targets(call) ==
    LET ts == SelectSeq(call.args, LAMBDA a : "file" \in DOMAIN a)
    IN  [i \in 1..Len(ts) |-> ts[i].file]

\* raise typer.Exit(code=code); the command returning after its last tool
\* passed is Exit(0).
Exit(code) ==
    /\ pc' = "exit"
    /\ exit_code' = code

\* A tool failure that does not stop the command.
ContinueAnyway(code, next) ==
    /\ pc' = next
    /\ UNCHANGED exit_code

\* if code != 0: raise typer.Exit(code=code) (check, lines 418-537, and
\* _run_or_exit), else go on to `next`.
ExitIfFailed(code, next) ==
    IF code # 0
    THEN Exit(code)
    ELSE /\ pc' = next
         /\ UNCHANGED exit_code

\* A locator check that is never taken.
NoVenvIgnored(v) == FALSE

\* venv_dir is None (lines 387, 553, 583)
NoVenv(v) == v = "none"

NO_VENV == "No venv found. Run: devr init"
USING_VENV == "Using venv"
STAGED_NO_EFFECT == "Warning: --staged has no effect without --changed."
NO_GIT_STATE ==
    "Warning: unable to read git state; --changed mode found no file targets."
SKIP_LINT == "No changed Python files detected; skipping lint/format."
SKIP_TYPES == "No changed Python files detected; skipping type checks."
SKIP_NO_TESTS == "Skipping tests (--no-tests)."
SKIP_FAST == "Skipping tests (--fast)."
UNKNOWN_FORMATTER == "Unknown formatter"
UNKNOWN_TYPECHECKER == "Unknown typechecker"
CHECK_PASSED == "devr check passed"
FIX_COMPLETE == "devr fix complete"
SECURITY_PASSED == "devr security passed"

\* _run_with_summary's line, without the arguments (calls holds them).
Running(module) == "Running: " \o module
\* _run_check_stage's header.
Stage(stage_name) == "Stage: " \o stage_name

\* The configurations a command may be handed: load_config's, or one a
\* caller substitutes for it.
Formatters == {"ruff", "black", "yapf"}
TypeCheckers == {"mypy", "pyright", "pytype"}
Configs ==
    [venv_path : {".venv"},
     formatter : Formatters, typechecker : TypeCheckers, coverage_min : {85},
     coverage_branch : BOOLEAN, run_tests : BOOLEAN]

\* cfg = load_config(root) (check, line 380; fix, line 550; security, line
\* 580): what load_config returned where the run starts with it, and any
\* DevrConfig where the command is looked at on its own.
LoadedConfigs == IF env = <<>> THEN Configs ELSE {cfg}

-----------------------------------------------------------------------------
(* check.                                                                  *)

\* check, lines 379-398: warn about --staged alone, locate the environment,
\* and start resolving the change set.  The configuration load_config
\* returned at line 380 is immutable and first read at line 407: CheckLint
\* draws it there.
CheckStart ==
    /\ cmd = "check"
    /\ pc = "start"
    /\ \E v \in {"none", "found"} :
         LET warned == IF opts.staged /\ ~opts.changed
                       THEN <<STAGED_NO_EFFECT>> ELSE <<>>
         IN  /\ venv_dir' = v
             /\ IF NoVenv(v)
                THEN /\ out' = out \o warned \o <<NO_VENV>>
                     /\ Exit(2)
                ELSE /\ out' = out \o warned \o <<USING_VENV>>
                     /\ pc' = IF ~opts.changed THEN "check_lint"
                              ELSE IF opts.staged THEN "staged_files"
                              ELSE "cf_diff_head"
                     /\ UNCHANGED exit_code
    /\ UNCHANGED <<cmd, env, opts, cfg, unstaged, tracked_lines, git_repo_cache,
                   changed_candidates, files, fs, gitlog, git_how, git_out,
                   calls>>

\* check, lines 400-404: filter the candidates, and warn when there are none
\* and root is not inside a work tree (_is_git_repo, through its cache).
CheckFilter ==
    /\ cmd = "check"
    /\ pc = "check_filter"
    /\ LET py == FilterPy(changed_candidates)
       IN  \E f \in [Range(py) -> FileStates] :
             /\ fs' = f
             /\ files' = ExistingFiles(f, py)
    /\ IF changed_candidates # <<>>
       THEN /\ pc' = "check_lint"
            /\ UNCHANGED <<out, gitlog, git_how, git_repo_cache>>
       ELSE IF ROOT \in DOMAIN git_repo_cache
       THEN /\ out' = IF git_repo_cache[ROOT] THEN out
                      ELSE Append(out, NO_GIT_STATE)
            /\ pc' = "check_lint"
            /\ UNCHANGED <<gitlog, git_how, git_repo_cache>>
       ELSE \E raw \in RevParseOutcomes :
              LET inside_work_tree == InsideWorkTree(raw)
              IN  /\ Logged(REV_PARSE, raw)
                  /\ IF NoReturn(raw)
                     THEN /\ pc' = NoReturnPc(raw)
                          /\ UNCHANGED <<out, git_repo_cache>>
                     ELSE /\ git_repo_cache' = (ROOT :> inside_work_tree)
                          /\ out' = IF inside_work_tree THEN out
                                    ELSE Append(out, NO_GIT_STATE)
                          /\ pc' = "check_lint"
    /\ UNCHANGED <<cmd, env, opts, cfg, venv_dir, unstaged, tracked_lines,
                   changed_candidates, git_out, calls, exit_code>>

\* The locals of the scoping step, which check does not read after line 404.
ScopingDone ==
    /\ changed_candidates' = <<>>
    /\ fs' = <<>>
    /\ git_how' = <<>>
    /\ git_out' = <<>>
    /\ git_repo_cache' = EmptyCache

\* A target that falls back to the whole project when nothing changed.
LintTargetOrProject == IF opts.changed /\ files # <<>> THEN files ELSE <<DOT>>

\* lint_target / fix_target, lines 409, 434 and 459.
LintTarget == IF opts.changed THEN files ELSE <<DOT>>

\* check, stage 1, first tool: ruff check (lines 407-419, 432-444, 457-469),
\* or the skip notice, or the unknown-formatter exit (lines 485-487).
CheckLint ==
    /\ cmd = "check"
    /\ pc = "check_lint"
    /\ ScopingDone
    /\ \E c \in LoadedConfigs :
         /\ cfg' = c
         /\ IF c.formatter \notin {"ruff", "black"}
            THEN /\ out' = Append(out, UNKNOWN_FORMATTER)
                 /\ Exit(2)
                 /\ UNCHANGED calls
            ELSE IF LintTarget = <<>>
            THEN /\ out' = Append(out, SKIP_LINT)
                 /\ pc' = "check_types"
                 /\ UNCHANGED <<calls, exit_code>>
            ELSE \E code \in Codes :
                   LET fixing == c.formatter = "ruff" /\ opts.fix
                       words == IF fixing THEN <<Opt("check"), Opt("--fix")>>
                                ELSE <<Opt("check")>>
                       stage_name == IF fixing THEN "ruff check --fix"
                                     ELSE "ruff check"
                   IN  /\ out' = out \o <<Stage(stage_name), Running("ruff")>>
                       /\ calls' = Append(calls,
                             Invocation("ruff", words \o Files(LintTarget),
                                        code))
                       /\ ExitIfFailed(code, "check_format")
    /\ UNCHANGED <<cmd, env, opts, venv_dir, unstaged, tracked_lines, files, gitlog>>

\* check, stage 1, second tool: ruff format (lines 421-429, 446-454) or
\* black (lines 470-482).
CheckFormat ==
    /\ cmd = "check"
    /\ pc = "check_format"
    /\ \E code \in Codes :
         LET module == IF cfg.formatter = "ruff" THEN "ruff" ELSE "black"
             words ==
                 IF cfg.formatter = "ruff"
                 THEN (IF opts.fix THEN <<Opt("format")>>
                       ELSE <<Opt("format"), Opt("--check")>>)
                 ELSE (IF opts.fix THEN <<Opt("-q")>>
                       ELSE <<Opt("-q"), Opt("--check")>>)
             stage_name ==
                 IF cfg.formatter = "ruff"
                 THEN (IF opts.fix THEN "ruff format" ELSE "ruff format --check")
                 ELSE (IF opts.fix THEN "black" ELSE "black --check")
         IN  /\ out' = out \o <<Stage(stage_name), Running(module)>>
             /\ calls' = Append(calls,
                   Invocation(module, words \o Files(LintTarget), code))
             /\ ExitIfFailed(code, "check_types")
    /\ UNCHANGED <<cmd, env, opts, cfg, venv_dir, unstaged, tracked_lines,
                   git_repo_cache, changed_candidates, files, fs, gitlog,
                   git_how, git_out>>

\* Type-check targets that are the scoped list even in an unscoped run.
TypecheckTargetsScoped(changed, fl) == fl

\* _typecheck_targets
TypecheckTargets(changed, fl) == IF ~changed THEN <<DOT>> ELSE fl

\* check, stage 2 (lines 490-518).
CheckTypes ==
    /\ cmd = "check"
    /\ pc = "check_types"
    /\ LET typecheck_target == TypecheckTargets(opts.changed, files)
       IN  IF typecheck_target = <<>>
           THEN /\ out' = Append(out, SKIP_TYPES)
                /\ pc' = "check_tests"
                /\ UNCHANGED <<calls, exit_code>>
           ELSE IF cfg.typechecker \in {"mypy", "pyright"}
           THEN \E code \in Codes :
                  /\ out' = out \o <<Stage(cfg.typechecker),
                                     Running(cfg.typechecker)>>
                  /\ calls' = Append(calls,
                        Invocation(cfg.typechecker, Files(typecheck_target),
                                   code))
                  /\ ExitIfFailed(code, "check_tests")
           ELSE /\ out' = Append(out, UNKNOWN_TYPECHECKER)
                /\ Exit(2)
                /\ UNCHANGED calls
    /\ UNCHANGED <<cmd, env, opts, cfg, venv_dir, unstaged, tracked_lines,
                   git_repo_cache, changed_candidates, files, fs, gitlog,
                   git_how, git_out>>

\* cov_args, lines 522-528.
CovArgs ==
    LET fail_under == Opt("--cov-fail-under=" \o ToString(cfg.coverage_min))
    IN  IF cfg.coverage_branch
        THEN <<Opt("--cov=."), Opt("--cov-branch"),
               Opt("--cov-report=term-missing"), fail_under>>
        ELSE <<Opt("--cov=."), Opt("--cov-report=term-missing"), fail_under>>

\* A test gate that forgets --no-tests.
RunTestsUnlessFast == cfg.run_tests /\ ~opts.fast

\* line 521: cfg.run_tests and not fast and not no_tests
RunTests == cfg.run_tests /\ ~opts.fast /\ ~opts.no_tests

\* check, stage 3 and the end of the command (lines 521-543).
CheckTests ==
    /\ cmd = "check"
    /\ pc = "check_tests"
    /\ IF RunTests
       THEN \E code \in Codes :
              /\ calls' = Append(calls, Invocation("pytest", CovArgs, code))
              /\ out' = out \o <<Stage("pytest"), Running("pytest")>>
                            \o (IF code # 0 THEN <<>> ELSE <<CHECK_PASSED>>)
              /\ Exit(code)
       ELSE /\ out' = out \o (IF opts.no_tests THEN <<SKIP_NO_TESTS>>
                              ELSE IF opts.fast THEN <<SKIP_FAST>>
                              ELSE <<>>)
                          \o <<CHECK_PASSED>>
            /\ Exit(0)
            /\ UNCHANGED calls
    /\ UNCHANGED <<cmd, env, opts, cfg, venv_dir, unstaged, tracked_lines,
                   git_repo_cache, changed_candidates, files, fs, gitlog,
                   git_how, git_out>>

Check == CheckStart \/ CheckFilter \/ CheckLint \/ CheckFormat \/ CheckTypes
         \/ CheckTests

-----------------------------------------------------------------------------
(* fix.                                                                    *)

\* fix, lines 549-555.
FixStart ==
    /\ cmd = "fix"
    /\ pc = "start"
    /\ \E c \in LoadedConfigs, v \in {"none", "found"} :
         /\ cfg' = c
         /\ venv_dir' = v
         /\ IF NoVenv(v)
            THEN /\ out' = Append(out, NO_VENV)
                 /\ Exit(2)
            ELSE /\ pc' = "fix_lint"
                 /\ UNCHANGED <<out, exit_code>>
    /\ UNCHANGED <<cmd, env, opts, unstaged, tracked_lines, git_repo_cache,
                   changed_candidates, files, fs, gitlog, git_how, git_out,
                   calls>>

\* fix, first _run_or_exit (lines 558, 561), or the unknown-formatter exit
\* (lines 563-565).
FixLint ==
    /\ cmd = "fix"
    /\ pc = "fix_lint"
    /\ IF cfg.formatter \notin {"ruff", "black"}
       THEN /\ out' = Append(out, UNKNOWN_FORMATTER)
            /\ Exit(2)
            /\ UNCHANGED calls
       ELSE \E code \in Codes :
              /\ out' = Append(out, Running("ruff"))
              /\ calls' = Append(calls,
                    Invocation("ruff",
                        <<Opt("check"), Opt("--fix"), File(DOT)>>, code))
              /\ ExitIfFailed(code, "fix_format")
    /\ UNCHANGED <<cmd, env, opts, cfg, venv_dir, unstaged, tracked_lines,
                   git_repo_cache, changed_candidates, files, fs, gitlog,
                   git_how, git_out>>

\* fix, second _run_or_exit (lines 559, 562) and the end of the command.
FixFormat ==
    /\ cmd = "fix"
    /\ pc = "fix_format"
    /\ \E code \in Codes :
         LET module == IF cfg.formatter = "ruff" THEN "ruff" ELSE "black"
             args == IF cfg.formatter = "ruff"
                     THEN <<Opt("format"), File(DOT)>>
                     ELSE <<File(DOT)>>
         IN  /\ calls' = Append(calls, Invocation(module, args, code))
             /\ out' = out \o <<Running(module)>>
                           \o (IF code # 0 THEN <<>> ELSE <<FIX_COMPLETE>>)
             /\ Exit(code)
    /\ UNCHANGED <<cmd, env, opts, cfg, venv_dir, unstaged, tracked_lines,
                   git_repo_cache, changed_candidates, files, fs, gitlog,
                   git_how, git_out>>

Fix == FixStart \/ FixLint \/ FixFormat

-----------------------------------------------------------------------------
(* security.                                                               *)

RECURSIVE JoinComma(_)
\* ", ".join(names)
JoinComma(names) ==
    IF names = <<>> THEN ""
    ELSE IF Len(names) = 1 THEN names[1]
    ELSE names[1] \o ", " \o JoinComma(Tail(names))

FailedSummary(failed_checks) ==
    "Security checks failed: " \o JoinComma(failed_checks)

\* A fail-fast test that does not look at the flag.
FailFastAlways(code) == code # 0

\* A fail-fast test that is never taken.
FailFastNever(code) == FALSE

\* lines 590 and 600: code != 0 and fail_fast
FailFast(code) == code # 0 /\ opts.fail_fast

\* security, lines 579-587.
SecurityStart ==
    /\ cmd = "security"
    /\ pc = "start"
    /\ \E c \in LoadedConfigs, v \in {"none", "found"} :
         /\ cfg' = c
         /\ venv_dir' = v
         /\ IF NoVenv(v)
            THEN /\ out' = Append(out, NO_VENV)
                 /\ Exit(2)
            ELSE /\ out' = Append(out, USING_VENV)
                 /\ pc' = "pip_audit"
                 /\ UNCHANGED exit_code
    /\ UNCHANGED <<cmd, env, opts, unstaged, tracked_lines, git_repo_cache,
                   changed_candidates, files, fs, gitlog, git_how, git_out,
                   calls>>

\* security, lines 589-592.
SecurityPipAudit ==
    /\ cmd = "security"
    /\ pc = "pip_audit"
    /\ \E pip_audit_code \in Codes :
         /\ calls' = Append(calls, Invocation("pip_audit", <<>>, pip_audit_code))
         /\ IF FailFast(pip_audit_code)
            THEN /\ out' = out \o <<Running("pip_audit"),
                                    FailedSummary(<<"pip-audit">>)>>
                 /\ Exit(1)
            ELSE /\ out' = Append(out, Running("pip_audit"))
                 /\ pc' = "bandit"
                 /\ UNCHANGED exit_code
    /\ UNCHANGED <<cmd, env, opts, cfg, venv_dir, unstaged, tracked_lines,
                   git_repo_cache, changed_candidates, files, fs, gitlog,
                   git_how, git_out>>

\* security, lines 594-613; pip_audit_code is the code calls recorded.
SecurityBandit ==
    /\ cmd = "security"
    /\ pc = "bandit"
    /\ \E bandit_code \in Codes :
         LET pip_audit_code == calls[1].code
             failed_checks ==
                 (IF pip_audit_code # 0 THEN <<"pip-audit">> ELSE <<>>)
                 \o (IF bandit_code # 0 THEN <<"bandit">> ELSE <<>>)
         IN  /\ calls' = Append(calls,
                   Invocation("bandit",
                       <<Opt("-r"), File(DOT), Opt("-x"), Opt("excludes")>>,
                       bandit_code))
             /\ IF FailFast(bandit_code)
                THEN /\ out' = out \o <<Running("bandit"),
                                        FailedSummary(<<"bandit">>)>>
                     /\ Exit(1)
                ELSE IF failed_checks # <<>>
                THEN /\ out' = out \o <<Running("bandit"),
                                        FailedSummary(failed_checks)>>
                     /\ Exit(1)
                ELSE /\ out' = out \o <<Running("bandit"), SECURITY_PASSED>>
                     /\ Exit(0)
    /\ UNCHANGED <<cmd, env, opts, cfg, venv_dir, unstaged, tracked_lines,
                   git_repo_cache, changed_candidates, files, fs, gitlog,
                   git_how, git_out>>

Security == SecurityStart \/ SecurityPipAudit \/ SecurityBandit

-----------------------------------------------------------------------------
(* The three commands.                                                     *)

CheckOpts ==
    [fix : BOOLEAN, staged : BOOLEAN, changed : BOOLEAN, fast : BOOLEAN,
     no_tests : BOOLEAN, fail_fast : {FALSE}]
SecurityOpts ==
    [fix : {FALSE}, staged : {FALSE}, changed : {FALSE}, fast : {FALSE},
     no_tests : {FALSE}, fail_fast : BOOLEAN]

Init ==
    /\ cmd \in {"check", "fix", "security"}
    /\ pc = "start"
    /\ opts \in (IF cmd = "check" THEN CheckOpts
                 ELSE IF cmd = "security" THEN SecurityOpts
                 ELSE {NoOpts})
    /\ InitLocals

Next == Check \/ Fix \/ Security \/ StagedFiles \/ ChangedFiles

Spec == Init /\ [][Next]_vars

\* A command is one sequential process: while it has a next statement it
\* executes it, every tool it starts being assumed to end.
SpecFair == Spec /\ WF_vars(Next)

-----------------------------------------------------------------------------
(* find_venv, run on its own.                                              *)

\* The locals every helper starts from, whatever it reads.
InitHelperLocals ==
    /\ opts = NoOpts
    /\ venv_dir = "unset"
    /\ unstaged = None
    /\ tracked_lines = <<>>
    /\ git_repo_cache = EmptyCache
    /\ changed_candidates = <<>>
    /\ files = <<>>
    /\ fs = <<>>
    /\ gitlog = <<>>
    /\ git_how = <<>>
    /\ git_out = <<>>
    /\ calls = <<>>
    /\ out = <<>>
    /\ exit_code = NotExited

InitHelper ==
    /\ cfg = DefaultConfig
    /\ InitHelperLocals

\* The directories find_venv may look at: a configured one, sys.prefix, and
\* the three conventional names, all but sys.prefix under the project root.
CUSTOM == "custom-venv"
ACTIVE == "sys.prefix"
DefaultNames == <<".venv", "venv", "env">>
VenvDirs == {CUSTOM, ACTIVE} \cup Range(DefaultNames)

\* The two places of an interpreter binary in an environment.
POSIX_PYTHON == "bin/python"
WINDOWS_PYTHON == "Scripts/python.exe"

\* `configured` is None; find_venv's None is the "none" of venv_dir.
NO_PATH == "None"

\* if configured: neither None nor the empty string.
Truthy(configured) == configured \notin {NO_PATH, ""}

\* A venv_python that only knows the platform's own layout.
VenvPythonPreferred(bins, os_name, d) ==
    IF os_name = "nt" THEN WINDOWS_PYTHON ELSE POSIX_PYTHON

\* A venv_python that takes the other platform's binary whenever it exists.
VenvPythonAnyExisting(bins, os_name, d) ==
    LET preferred == IF os_name = "nt" THEN WINDOWS_PYTHON ELSE POSIX_PYTHON
        alternate == IF os_name = "nt" THEN POSIX_PYTHON ELSE WINDOWS_PYTHON
    IN  IF alternate \in bins[d] THEN alternate ELSE preferred

\* venv_python: the platform's binary, or the other platform's when only
\* that one exists.  bins[d] is the set of binaries present in d.
VenvPython(bins, os_name, d) ==
    LET preferred == IF os_name = "nt" THEN WINDOWS_PYTHON ELSE POSIX_PYTHON
        alternate == IF os_name = "nt" THEN POSIX_PYTHON ELSE WINDOWS_PYTHON
    IN  IF preferred \in bins[d] \/ alternate \notin bins[d]
        THEN preferred
        ELSE alternate

\* venv_python(p).exists()
PythonExists(d) == VenvPython(env.bins, env.os_name, d) \in env.bins[d]

RECURSIVE FirstWithPython(_)
\* find_venv, lines 43-48: the for loop over the conventional names.
FirstWithPython(names) ==
    IF names = <<>> THEN "none"
    ELSE IF PythonExists(names[1]) THEN names[1]
    ELSE FirstWithPython(Tail(names))

\* Where find_venv returns to: init, line 167, or its own caller.
FindVenvReturnPc == IF cmd = "init" THEN "init_venv" ELSE "done"

\* find_venv, lines 31-34: the configured path.
FindVenvConfigured ==
    /\ cmd \in {"find_venv", "init"}
    /\ pc = "fv_configured"
    /\ IF Truthy(env.configured) /\ PythonExists(env.configured)
       THEN /\ venv_dir' = env.configured
            /\ pc' = FindVenvReturnPc
       ELSE /\ pc' = "fv_active"
            /\ UNCHANGED venv_dir
    /\ UNCHANGED <<cmd, env, opts, cfg, unstaged, tracked_lines,
                   git_repo_cache, changed_candidates, files, fs, gitlog,
                   git_how, git_out, calls, out, exit_code>>

\* find_venv, lines 38-41: the active environment.
FindVenvActive ==
    /\ cmd \in {"find_venv", "init"}
    /\ pc = "fv_active"
    /\ IF env.inside_venv /\ PythonExists(ACTIVE)
       THEN /\ venv_dir' = ACTIVE
            /\ pc' = FindVenvReturnPc
       ELSE /\ pc' = "fv_names"
            /\ UNCHANGED venv_dir
    /\ UNCHANGED <<cmd, env, opts, cfg, unstaged, tracked_lines,
                   git_repo_cache, changed_candidates, files, fs, gitlog,
                   git_how, git_out, calls, out, exit_code>>

\* find_venv, lines 43-48: the conventional names, then None.
FindVenvNames ==
    /\ cmd \in {"find_venv", "init"}
    /\ pc = "fv_names"
    /\ venv_dir' = FirstWithPython(DefaultNames)
    /\ pc' = FindVenvReturnPc
    /\ UNCHANGED <<cmd, env, opts, cfg, unstaged, tracked_lines,
                   git_repo_cache, changed_candidates, files, fs, gitlog,
                   git_how, git_out, calls, out, exit_code>>

FindVenv == FindVenvConfigured \/ FindVenvActive \/ FindVenvNames

\* What find_venv is called with and what it finds on disk.
FindVenvEnvs ==
    [configured : {NO_PATH, "", CUSTOM, ".venv"},
     inside_venv : BOOLEAN,
     os_name : {"posix", "nt"},
     bins : [VenvDirs -> SUBSET {POSIX_PYTHON, WINDOWS_PYTHON}]]

InitFindVenv ==
    /\ cmd = "find_venv"
    /\ pc = "fv_configured"
    /\ env \in FindVenvEnvs
    /\ InitHelper

SpecFindVenv == InitFindVenv /\ [][FindVenv]_vars

-----------------------------------------------------------------------------
(* load_config, run on its own.                                            *)

\* A value of the parsed TOML document, by Python type: `s` is the text of
\* a str, `n` the value of an int, or of a float in tenths, `b` the value of
\* a bool.  "inf" and "nan" are the two float specials TOML can spell, "list"
\* stands for every other type, "absent" for the None of dict.get.
Raw(type, str, n, b) == [type |-> type, s |-> str, n |-> n, b |-> b]
Str(str) == Raw("str", str, 0, FALSE)
Int_(n) == Raw("int", <<>>, n, FALSE)
Float(tenths) == Raw("float", <<>>, tenths, FALSE)
Bool(b) == Raw("bool", <<>>, 0, b)
Other(type) == Raw(type, <<>>, 0, FALSE)
ABSENT == Other("absent")

UPPER == <<"A", "B", "C", "D", "E", "F", "G", "H", "I", "J", "K", "L", "M",
           "N", "O", "P", "Q", "R", "S", "T", "U", "V", "W", "X", "Y", "Z">>
LOWER == <<"a", "b", "c", "d", "e", "f", "g", "h", "i", "j", "k", "l", "m",
           "n", "o", "p", "q", "r", "s", "t", "u", "v", "w", "x", "y", "z">>

\* str.lower, on ASCII text.
Lower(str) ==
    [i \in 1..Len(str) |->
        IF \E k \in 1..Len(UPPER) : UPPER[k] = str[i]
        THEN LOWER[CHOOSE k \in 1..Len(UPPER) : UPPER[k] = str[i]]
        ELSE str[i]]

RECURSIVE Text(_)
\* The string a sequence of characters spells.
Text(chars) == IF chars = <<>> THEN "" ELSE chars[1] \o Text(Tail(chars))

\* A _parse_choice that gives a str back as it was written.
ParseChoiceRaw(value, default, allowed) ==
    IF value.type = "str" THEN Text(value.s) ELSE default

\* A _parse_choice without the membership test.
ParseChoiceNormalized(value, default, allowed) ==
    IF value.type = "str" THEN Text(Lower(Strip(value.s))) ELSE default

\* _parse_choice
ParseChoice(value, default, allowed) ==
    IF value.type = "str" /\ Text(Lower(Strip(value.s))) \in allowed
    THEN Text(Lower(Strip(value.s)))
    ELSE default

\* _parse_venv_path
ParseVenvPath(value, default) ==
    IF value.type = "str" /\ Strip(value.s) # <<>>
    THEN Text(Strip(value.s))
    ELSE default

\* _parse_bool
ParseBool(value, default) ==
    IF value.type = "bool" THEN value.b
    ELSE IF value.type = "str"
    THEN LET normalized == Text(Lower(Strip(value.s)))
         IN  IF normalized \in {"1", "true", "yes", "on"} THEN TRUE
             ELSE IF normalized \in {"0", "false", "no", "off"} THEN FALSE
             ELSE default
    ELSE IF value.type = "int"
    THEN (IF value.n \in {0, 1} THEN value.n = 1 ELSE default)
    ELSE default

DIGITS == <<"0", "1", "2", "3", "4", "5", "6", "7", "8", "9">>
IsDigit(c) == \E k \in 1..Len(DIGITS) : DIGITS[k] = c
DigitValue(c) == (CHOOSE k \in 1..Len(DIGITS) : DIGITS[k] = c) - 1

RECURSIVE Decimal(_)
\* The number a sequence of decimal digits spells.
Decimal(ds) ==
    IF ds = <<>> THEN 0
    ELSE 10 * Decimal(SubSeq(ds, 1, Len(ds) - 1)) + DigitValue(ds[Len(ds)])

\* What int(value) does: [how |-> "ok", val |-> the int], or the exception it
\* raises.  A str is stripped, may carry a sign, and must be decimal digits;
\* a float is truncated towards zero; int(inf) raises OverflowError and
\* int(nan) ValueError; other types raise TypeError.
IntOf(value) ==
    IF value.type = "int" THEN [how |-> "ok", val |-> value.n]
    ELSE IF value.type = "bool"
    THEN [how |-> "ok", val |-> IF value.b THEN 1 ELSE 0]
    ELSE IF value.type = "float"
    THEN [how |-> "ok",
          val |-> IF value.n >= 0 THEN value.n \div 10
                  ELSE 0 - ((0 - value.n) \div 10)]
    ELSE IF value.type = "inf" THEN [how |-> "OverflowError", val |-> 0]
    ELSE IF value.type = "nan" THEN [how |-> "ValueError", val |-> 0]
    ELSE IF value.type = "str"
    THEN LET t == Strip(value.s)
             signed == t # <<>> /\ t[1] \in {"+", "-"}
             ds == IF signed THEN Tail(t) ELSE t
         IN  IF ds # <<>> /\ \A i \in 1..Len(ds) : IsDigit(ds[i])
             THEN [how |-> "ok",
                   val |-> IF signed /\ t[1] = "-" THEN 0 - Decimal(ds)
                           ELSE Decimal(ds)]
             ELSE [how |-> "ValueError", val |-> 0]
    ELSE [how |-> "TypeError", val |-> 0]

\* _parse_int, line 60: except (TypeError, ValueError)
ParseIntCaught == {"TypeError", "ValueError"}

\* _parse_int: whether int(value)'s exception leaves _parse_int.
ParseIntRaises(value) ==
    /\ value.type # "bool"
    /\ IntOf(value).how \notin ParseIntCaught \cup {"ok"}

\* _parse_int, when it returns.
ParseInt(value, default, min_value, max_value) ==
    IF value.type = "bool" THEN default
    ELSE IF IntOf(value).how # "ok" THEN default
    ELSE IF IntOf(value).val < min_value THEN default
    ELSE IF IntOf(value).val > max_value THEN default
    ELSE IntOf(value).val

\* The [tool.devr] table, or the {} that stands in for it.
NoFields ==
    [venv_path |-> ABSENT, formatter |-> ABSENT, typechecker |-> ABSENT,
     coverage_min |-> ABSENT, coverage_branch |-> ABSENT, run_tests |-> ABSENT]

\* lines 101-102: data.get("tool", {}) and tool.get("devr", {}); each of
\* env.tool and env.devr is "absent", "scalar" (present, not a table) or
\* "table".
Devr == IF env.tool = "table" /\ env.devr = "table" THEN env.fields ELSE NoFields

\* load_config, line 103: isinstance(devr, dict)
DevrIsDict == ~(env.tool = "table" /\ env.devr = "scalar")

\* Where load_config returns to: check (line 380) and fix (line 550), or its
\* own caller.
LoadConfigReturnPc == IF cmd = "load_config" THEN "done" ELSE "start"

\* load_config, lines 90-99: the file is absent; or open() raises OSError or
\* tomllib.load raises UnicodeDecodeError, which nothing catches; or
\* tomllib.load raises TOMLDecodeError, which is caught; or the file parses.
LoadConfigRead ==
    /\ cmd \in {"load_config", "check", "fix"}
    /\ pc = "lc_read"
    /\ IF env.file \in {"absent", "malformed"}
       THEN /\ cfg' = DefaultConfig
            /\ pc' = LoadConfigReturnPc
       ELSE IF env.file \in {"unreadable", "not_utf8"}
       THEN /\ pc' = "raised"
            /\ UNCHANGED cfg
       ELSE /\ pc' = "lc_section"
            /\ UNCHANGED cfg
    /\ UNCHANGED <<cmd, env, opts, venv_dir, unstaged, tracked_lines,
                   git_repo_cache, changed_candidates, files, fs, gitlog,
                   git_how, git_out, calls, out, exit_code>>

\* load_config, lines 101-104: the [tool.devr] section.
LoadConfigSection ==
    /\ cmd \in {"load_config", "check", "fix"}
    /\ pc = "lc_section"
    /\ IF DevrIsDict
       THEN /\ pc' = "lc_fields"
            /\ UNCHANGED cfg
       ELSE /\ cfg' = DefaultConfig
            /\ pc' = LoadConfigReturnPc
    /\ UNCHANGED <<cmd, env, opts, venv_dir, unstaged, tracked_lines,
                   git_repo_cache, changed_candidates, files, fs, gitlog,
                   git_how, git_out, calls, out, exit_code>>

\* load_config, lines 106-120: every field parsed against base = DevrConfig().
LoadConfigFields ==
    /\ cmd \in {"load_config", "check", "fix"}
    /\ pc = "lc_fields"
    /\ LET base == DefaultConfig
       IN  IF ParseIntRaises(Devr.coverage_min)
           THEN /\ pc' = "raised"
                /\ UNCHANGED cfg
           ELSE /\ cfg' =
                     [venv_path |-> ParseVenvPath(Devr.venv_path, base.venv_path),
                      formatter |-> ParseChoice(Devr.formatter, base.formatter,
                                                {"ruff", "black"}),
                      typechecker |-> ParseChoice(Devr.typechecker,
                                                  base.typechecker,
                                                  {"mypy", "pyright"}),
                      coverage_min |-> ParseInt(Devr.coverage_min,
                                                base.coverage_min, 0, 100),
                      coverage_branch |-> ParseBool(Devr.coverage_branch,
                                                    base.coverage_branch),
                      run_tests |-> ParseBool(Devr.run_tests, base.run_tests)]
                /\ pc' = LoadConfigReturnPc
    /\ UNCHANGED <<cmd, env, opts, venv_dir, unstaged, tracked_lines,
                   git_repo_cache, changed_candidates, files, fs, gitlog,
                   git_how, git_out, calls, out, exit_code>>

LoadConfig == LoadConfigRead \/ LoadConfigSection \/ LoadConfigFields

\* The raw values a pyproject.toml may give each field.
FormatterRaws ==
    { Str(<<"r", "u", "f", "f">>),
      Str(<<" ", "B", "l", "a", "c", "k", "\t">>),
      Str(<<"Y", "A", "P", "F">>),
      Str(<<"r", "u", " ", "f", "f">>),
      Str(<<"m", "y", "p", "y">>),
      Str(<<>>), Bool(TRUE), Other("list"), ABSENT }
TypecheckerRaws ==
    { Str(<<"M", "y", "P", "y">>),
      Str(<<"p", "y", "r", "i", "g", "h", "t", NL>>),
      Str(<<"P", "y", "t", "y", "p", "e">>),
      Int_(1), ABSENT }
CoverageMinRaws ==
    { Int_(0 - 1), Int_(0), Int_(42), Int_(100), Int_(101),
      Float(0 - 5), Float(425), Float(1005), Float(1010),
      Other("inf"), Other("nan"),
      Str(<<"4", "2">>), Str(<<" ", "7", " ">>), Str(<<"1", "5", "0">>),
      Str(<<"-", "1">>), Str(<<"a", "b", "c">>), Str(<<>>),
      Bool(TRUE), Other("list"), ABSENT }
CoverageBranchRaws ==
    { Bool(FALSE), Str(<<"O", "f", "f">>), Str(<<"m", "a", "y", "b", "e">>),
      Int_(2), ABSENT }
RunTestsRaws == { Str(<<" ", "N", "O", " ">>), Int_(0), Float(0), ABSENT }
VenvPathRaws ==
    { Str(<<" ", "e", "n", "v", " ">>), Str(<<" ", " ">>), Int_(1), ABSENT }

FieldsUniverse ==
    [venv_path : VenvPathRaws, formatter : FormatterRaws,
     typechecker : TypecheckerRaws, coverage_min : CoverageMinRaws,
     coverage_branch : CoverageBranchRaws, run_tests : RunTestsRaws]

\* The pyproject.toml load_config may find.
LoadConfigEnvs ==
    [file : {"absent", "unreadable", "not_utf8", "malformed"},
     tool : {"absent"}, devr : {"absent"}, fields : {NoFields}]
    \cup [file : {"parsed"}, tool : {"absent", "scalar"}, devr : {"absent"},
          fields : {NoFields}]
    \cup [file : {"parsed"}, tool : {"table"}, devr : {"absent", "scalar"},
          fields : {NoFields}]
    \cup [file : {"parsed"}, tool : {"table"}, devr : {"table"},
          fields : FieldsUniverse]

InitLoadConfig ==
    /\ cmd = "load_config"
    /\ pc = "lc_read"
    /\ env \in LoadConfigEnvs
    /\ InitHelper

SpecLoadConfig == InitLoadConfig /\ [][LoadConfig]_vars

-----------------------------------------------------------------------------
(* check and fix, starting with their call of load_config.                 *)

\* The pyproject.toml of such a run: no file, an unreadable one, a [tool]
\* table whose devr is not a table, or a [tool.devr] table that gives the
\* formatter and the type checker.
LoadedFields ==
    {[NoFields EXCEPT !.formatter = f, !.typechecker = t] :
        f \in { Str(<<" ", "B", "l", "a", "c", "k", "\t">>),
                Str(<<"Y", "A", "P", "F">>), Bool(TRUE), ABSENT },
        t \in { Str(<<"p", "y", "r", "i", "g", "h", "t", NL>>),
                Str(<<"P", "y", "t", "y", "p", "e">>), ABSENT }}
LoadedEnvs ==
    [file : {"absent", "unreadable"}, tool : {"absent"}, devr : {"absent"},
     fields : {NoFields}]
    \cup [file : {"parsed"}, tool : {"table"}, devr : {"scalar"},
          fields : {NoFields}]
    \cup [file : {"parsed"}, tool : {"table"}, devr : {"table"},
          fields : LoadedFields]

InitLoaded ==
    /\ cmd \in {"check", "fix"}
    /\ pc = "lc_read"
    /\ opts \in (IF cmd = "check" THEN CheckOpts ELSE {NoOpts})
    /\ env \in LoadedEnvs
    /\ cfg = DefaultConfig
    /\ venv_dir = "unset"
    /\ unstaged = None
    /\ tracked_lines = <<>>
    /\ git_repo_cache = EmptyCache
    /\ changed_candidates = <<>>
    /\ files = <<>>
    /\ fs = <<>>
    /\ gitlog = <<>>
    /\ git_how = <<>>
    /\ git_out = <<>>
    /\ calls = <<>>
    /\ out = <<>>
    /\ exit_code = NotExited

NextLoaded == LoadConfig \/ Check \/ Fix \/ StagedFiles \/ ChangedFiles

SpecLoaded == InitLoaded /\ [][NextLoaded]_vars

-----------------------------------------------------------------------------
(* install_project and write_precommit, each run on its own.               *)

\* A file of the project root: whether it exists, and its text.
NoFile == [exists |-> FALSE, text |-> ""]
FileWith(text) == [exists |-> TRUE, text |-> text]

\* templates.PRECOMMIT_LOCAL_HOOK_YAML, by name.
PRECOMMIT_LOCAL_HOOK_YAML == "repos: [local hook: devr check]"

EDITABLE_FAILED ==
    "Editable install failed; trying non-editable install (pip install .)"
PROJECT_INSTALL_FAILED ==
    "Warning: project install failed; continuing without installed project dependencies."
REQS_INSTALL_FAILED ==
    "Warning: requirements install failed; continuing without installed project dependencies."
NOTHING_TO_INSTALL ==
    "No pyproject.toml or requirements.txt found; skipping project dependency install."
PRECOMMIT_EXISTS ==
    ".pre-commit-config.yaml already exists; leaving it unchanged."
PRECOMMIT_TIP ==
    "Tip: add a local hook that runs: devr check --staged --changed"

\* An installer whose failure goes unnoticed.
FailedNever(code) == FALSE

\* if code != 0 (lines 100, 105, 115)
Failed(code) == code # 0

\* Where install_project returns to: init, line 183, or its own caller.
InstallProjectReturnPc == IF cmd = "init" THEN "init_precommit" ELSE "done"

\* install_project, lines 97-123: the editable install, or the requirements
\* install, or the notice that there is nothing to install.
InstallProjectStart ==
    /\ cmd \in {"install_project", "init"}
    /\ pc = "ip_start"
    /\ IF env.pyproject
       THEN \E code \in Codes :
              /\ calls' = Append(calls,
                     Invocation("pip", <<Opt("install"), Opt("-e"), Opt(".")>>,
                                code))
              /\ IF Failed(code)
                 THEN /\ out' = Append(out, EDITABLE_FAILED)
                      /\ pc' = "ip_fallback"
                 ELSE /\ pc' = InstallProjectReturnPc
                      /\ UNCHANGED out
       ELSE IF env.reqs
       THEN \E code \in Codes :
              /\ calls' = Append(calls,
                     Invocation("pip", <<Opt("install"), Opt("-r"),
                                         Opt("requirements.txt")>>, code))
              /\ out' = IF Failed(code) THEN Append(out, REQS_INSTALL_FAILED)
                        ELSE out
              /\ pc' = InstallProjectReturnPc
       ELSE /\ out' = Append(out, NOTHING_TO_INSTALL)
            /\ pc' = InstallProjectReturnPc
            /\ UNCHANGED calls
    /\ UNCHANGED <<cmd, env, opts, cfg, venv_dir, unstaged, tracked_lines,
                   git_repo_cache, changed_candidates, files, fs, gitlog,
                   git_how, git_out, exit_code>>

\* install_project, lines 104-108: the non-editable install.
InstallProjectFallback ==
    /\ cmd \in {"install_project", "init"}
    /\ pc = "ip_fallback"
    /\ \E fallback_code \in Codes :
         /\ calls' = Append(calls,
                Invocation("pip", <<Opt("install"), Opt(".")>>, fallback_code))
         /\ out' = IF Failed(fallback_code)
                   THEN Append(out, PROJECT_INSTALL_FAILED)
                   ELSE out
         /\ pc' = InstallProjectReturnPc
    /\ UNCHANGED <<cmd, env, opts, cfg, venv_dir, unstaged, tracked_lines,
                   git_repo_cache, changed_candidates, files, fs, gitlog,
                   git_how, git_out, exit_code>>

InstallProject == InstallProjectStart \/ InstallProjectFallback

\* A test that never finds the file.
PathExistsNever(file) == FALSE

\* path.exists()
PathExists(file) == file.exists

\* write_precommit, called once by init (line 186) and MaxRuns times in a
\* row on its own.  env.runs counts the calls made and env.writes the calls
\* of path.write_text.
WritePrecommit ==
    /\ cmd \in {"write_precommit", "init"}
    /\ pc = "wp_start"
    /\ IF PathExists(env.precommit)
       THEN /\ out' = out \o <<PRECOMMIT_EXISTS, PRECOMMIT_TIP>>
            /\ env' = [env EXCEPT !.runs = @ + 1]
       ELSE /\ env' = [env EXCEPT !.precommit = FileWith(PRECOMMIT_LOCAL_HOOK_YAML),
                                  !.writes = @ + 1,
                                  !.runs = @ + 1]
            /\ UNCHANGED out
    /\ pc' = IF cmd = "init" THEN "iph_start"
             ELSE IF env'.runs < MaxRuns THEN "wp_start"
             ELSE "done"
    /\ UNCHANGED <<cmd, opts, cfg, venv_dir, unstaged, tracked_lines,
                   git_repo_cache, changed_candidates, files, fs, gitlog,
                   git_how, git_out, calls, exit_code>>

\* The project root the two helpers may find; env.initial keeps the
\* .pre-commit-config.yaml that was there before the first call.
PrecommitFiles ==
    {NoFile, FileWith(""), FileWith("already-there"),
     FileWith(PRECOMMIT_LOCAL_HOOK_YAML)}
SetupEnvs ==
    {[pyproject |-> p, reqs |-> r, precommit |-> f, initial |-> f,
      runs |-> 0, writes |-> 0] :
        p \in BOOLEAN, r \in BOOLEAN, f \in PrecommitFiles}

InitSetup ==
    /\ cmd \in {"install_project", "write_precommit"}
    /\ pc = IF cmd = "install_project" THEN "ip_start" ELSE "wp_start"
    /\ env \in SetupEnvs
    /\ InitHelper

NextSetup == InstallProject \/ WritePrecommit

SpecSetup == InitSetup /\ [][NextSetup]_vars

-----------------------------------------------------------------------------
(* init: locate or create the environment, then install into it.           *)

CREATING_VENV == "Creating venv at"
INSTALLING_TOOLCHAIN == "Installing dev toolchain into venv..."
INSTALLING_PROJECT == "Installing project into venv (best-effort)..."
SETTING_UP_PRECOMMIT == "Setting up pre-commit..."
NO_GIT_REPOSITORY == "No git repository found; skipping pre-commit hook install."
INIT_DONE == "Done. Try: devr check"

\* templates.DEFAULT_TOOLCHAIN, by name.
DEFAULT_TOOLCHAIN == "*DEFAULT_TOOLCHAIN"

\* How create_venv can end: mkdir or the launch of the interpreter raises
\* OSError, or `python -m venv` exits, with 0 or with a status that
\* check_call turns into CalledProcessError.  `bins` is what it left in the
\* directory; the interpreter given by --python need not leave any.
CreateOutcomes ==
    {[kind |-> "oserror", returncode |-> 0, bins |-> {}]}
    \cup [kind : {"completed"}, returncode : {1}, bins : {{}}]
    \cup [kind : {"completed"}, returncode : {0},
          bins : SUBSET {POSIX_PYTHON, WINDOWS_PYTHON}]

\* An init that creates the environment whatever find_venv returned.
CreateAlways(v) == TRUE

\* if venv_dir is None (line 168)
CreateNeeded(v) == NoVenv(v)

\* init, lines 167-173: after find_venv, create the environment at the
\* configured path when none was found; nothing catches what create_venv
\* raises.
InitVenv ==
    /\ cmd = "init"
    /\ pc = "init_venv"
    /\ IF CreateNeeded(venv_dir)
       THEN \E made \in CreateOutcomes :
              /\ venv_dir' = cfg.venv_path
              /\ out' = Append(out, CREATING_VENV)
              /\ calls' = IF made.kind = "completed"
                          THEN Append(calls,
                                   Invocation("venv", <<Opt(cfg.venv_path)>>,
                                              made.returncode))
                          ELSE calls
              /\ IF made.kind = "completed" /\ made.returncode = 0
                 THEN /\ env' = [env EXCEPT !.bins[cfg.venv_path] = made.bins]
                      /\ pc' = "init_python"
                 ELSE /\ pc' = "raised"
                      /\ UNCHANGED env
       ELSE /\ out' = Append(out, USING_VENV)
            /\ pc' = "init_python"
            /\ UNCHANGED <<venv_dir, calls, env>>
    /\ UNCHANGED <<cmd, opts, cfg, unstaged, tracked_lines, git_repo_cache,
                   changed_candidates, files, fs, gitlog, git_how, git_out,
                   exit_code>>

\* An interpreter check that never fails.
NoPythonIgnored(d) == FALSE

\* if not py.exists() (lines 175-176)
NoPython(d) == ~PythonExists(d)

\* init, lines 175-179: the interpreter of the environment must exist.
InitPython ==
    /\ cmd = "init"
    /\ pc = "init_python"
    /\ IF NoPython(venv_dir)
       THEN /\ Exit(2)
            /\ UNCHANGED out
       ELSE /\ out' = Append(out, INSTALLING_TOOLCHAIN)
            /\ pc' = "et_pip"
            /\ UNCHANGED exit_code
    /\ UNCHANGED <<cmd, env, opts, cfg, venv_dir, unstaged, tracked_lines,
                   git_repo_cache, changed_candidates, files, fs, gitlog,
                   git_how, git_out, calls>>

\* ensure_toolchain, lines 81-85: upgrade pip, setuptools and wheel.
EnsureToolchainPip ==
    /\ cmd = "init"
    /\ pc = "et_pip"
    /\ \E code \in Codes :
         /\ calls' = Append(calls,
                Invocation("pip", <<Opt("install"), Opt("-U"), Opt("pip"),
                                    Opt("setuptools"), Opt("wheel")>>, code))
         /\ ExitIfFailed(code, "et_tools")
    /\ UNCHANGED <<cmd, env, opts, cfg, venv_dir, unstaged, tracked_lines,
                   git_repo_cache, changed_candidates, files, fs, gitlog,
                   git_how, git_out, out>>

\* ensure_toolchain, lines 87-89: install the toolchain; then init, line 182.
EnsureToolchainTools ==
    /\ cmd = "init"
    /\ pc = "et_tools"
    /\ \E code \in Codes :
         /\ calls' = Append(calls,
                Invocation("pip", <<Opt("install"), Opt(DEFAULT_TOOLCHAIN)>>,
                           code))
         /\ out' = IF code # 0 THEN out ELSE Append(out, INSTALLING_PROJECT)
         /\ ExitIfFailed(code, "ip_start")
    /\ UNCHANGED <<cmd, env, opts, cfg, venv_dir, unstaged, tracked_lines,
                   git_repo_cache, changed_candidates, files, fs, gitlog,
                   git_how, git_out>>

EnsureToolchain == EnsureToolchainPip \/ EnsureToolchainTools

\* init, line 185, once install_project has returned.
InitPrecommit ==
    /\ cmd = "init"
    /\ pc = "init_precommit"
    /\ out' = Append(out, SETTING_UP_PRECOMMIT)
    /\ pc' = "wp_start"
    /\ UNCHANGED <<cmd, env, opts, cfg, venv_dir, unstaged, tracked_lines,
                   git_repo_cache, changed_candidates, files, fs, gitlog,
                   git_how, git_out, calls, exit_code>>

\* A hook installer whose failure ends the command with status 0.
HookExitZero(code) == Exit(0)

\* install_precommit_hook, lines 144-145: raise typer.Exit(code=code)
HookExit(code) == Exit(code)

\* install_precommit_hook, lines 138-145, and the end of init (line 189):
\* outside a work tree the hook is skipped with a notice; inside one
\* `pre_commit install` runs and its failure ends the command.
InstallPrecommitHook ==
    /\ cmd = "init"
    /\ pc = "iph_start"
    /\ \E raw \in RevParseOutcomes :
         /\ Logged(REV_PARSE, raw)
         /\ IF NoReturn(raw)
            THEN /\ pc' = NoReturnPc(raw)
                 /\ UNCHANGED <<out, calls, exit_code>>
            ELSE IF RunGit(raw).isNone
            THEN /\ out' = out \o <<NO_GIT_REPOSITORY, INIT_DONE>>
                 /\ Exit(0)
                 /\ UNCHANGED calls
            ELSE \E code \in Codes :
                   /\ calls' = Append(calls,
                          Invocation("pre_commit", <<Opt("install")>>, code))
                   /\ IF code # 0
                      THEN /\ HookExit(code)
                           /\ UNCHANGED out
                      ELSE /\ out' = Append(out, INIT_DONE)
                           /\ Exit(0)
    /\ UNCHANGED <<cmd, env, opts, cfg, venv_dir, unstaged, tracked_lines,
                   git_repo_cache, changed_candidates, files, fs, git_out>>

\* What init finds: the configuration (its venv_path is what find_venv is
\* given), the interpreter state, the environments and the files of the
\* project root.  Only sys.prefix and .venv may hold an interpreter before
\* init runs.
InitConfigs == {DefaultConfig, [DefaultConfig EXCEPT !.venv_path = CUSTOM]}
InitBins ==
    {b \in [VenvDirs -> SUBSET {POSIX_PYTHON, WINDOWS_PYTHON}] :
        \A d \in VenvDirs \ {ACTIVE, ".venv"} : b[d] = {}}
InitEnvs(c) ==
    {[configured |-> c.venv_path, inside_venv |-> i, os_name |-> o,
      bins |-> b, pyproject |-> p, reqs |-> r, precommit |-> f,
      initial |-> f, runs |-> 0, writes |-> 0] :
        i \in BOOLEAN, o \in {"posix", "nt"}, b \in InitBins,
        p \in BOOLEAN, r \in BOOLEAN,
        f \in {NoFile, FileWith("already-there")}}

\* init, lines 163-167: load_config has returned cfg and find_venv is about
\* to run; cfg.venv_path lies inside the root, so no warning is printed.
InitInit ==
    /\ cmd = "init"
    /\ pc = "fv_configured"
    /\ cfg \in InitConfigs
    /\ env \in InitEnvs(cfg)
    /\ InitHelperLocals

NextInit ==
    \/ FindVenv
    \/ InitVenv
    \/ InitPython
    \/ EnsureToolchain
    \/ InstallProject
    \/ InitPrecommit
    \/ WritePrecommit
    \/ InstallPrecommitHook

SpecInit == InitInit /\ [][NextInit]_vars

-----------------------------------------------------------------------------
(* Properties of the workflows, checked under Spec.                        *)

Last(s) == s[Len(s)]
Modules(cs) == [i \in 1..Len(cs) |-> cs[i].module]
Said(line) == line \in Range(out)
Exited == pc = "exit"

\* The quality tools of check that take file targets.
TargetTools == {"ruff", "black", "mypy", "pyright"}

\* The position of a call in check's fixed order of stages.
StageRank(call) ==
    IF call.module = "pytest" THEN 4
    ELSE IF call.module \in {"mypy", "pyright"} THEN 3
    ELSE IF call.module = "black" \/ Opt("format") \in Range(call.args) THEN 2
    ELSE 1

\* C1: in check and in fix the tools run in the fixed order (lint, format,
\* type-check, test; ruff check --fix, then the formatter); a tool that
\* returned a non-zero code c is the last one invoked and the process has
\* exited with exactly c; the process exits 0 only if every invoked tool
\* returned 0.
C1_FirstFailureStops ==
    cmd \in {"check", "fix"} =>
        /\ \A i \in 1..Len(calls) :
             calls[i].code # 0 =>
                 /\ i = Len(calls)
                 /\ Exited
                 /\ exit_code = calls[i].code
        /\ (Exited /\ exit_code = 0) => \A i \in 1..Len(calls) : calls[i].code = 0
        /\ cmd = "check" =>
             \A i, j \in 1..Len(calls) :
                 i < j => StageRank(calls[i]) < StageRank(calls[j])
        /\ cmd = "fix" =>
             /\ Len(calls) <= 2
             /\ Len(calls) >= 1 =>
                  /\ calls[1].module = "ruff"
                  /\ calls[1].args = <<Opt("check"), Opt("--fix"), File(DOT)>>
             /\ Len(calls) = 2 =>
                  \/ /\ calls[2].module = "ruff"
                     /\ calls[2].args = <<Opt("format"), File(DOT)>>
                  \/ /\ calls[2].module = "black"
                     /\ calls[2].args = <<File(DOT)>>

\* A check run whose third tool, the type checker, failed with code 2 after
\* the linter and the formatter passed.
C1_Witness ==
    /\ cmd = "check"
    /\ Exited
    /\ Len(calls) = 3
    /\ calls[1].code = 0
    /\ calls[2].code = 0
    /\ calls[3].module = "pyright"
    /\ calls[3].code = 2
    /\ exit_code = 2

\* C2: in security without --fail-fast, pip_audit and then bandit are both
\* invoked whatever pip_audit returned; the exit status is 1 exactly when
\* one of them returned non-zero and 0 otherwise, never a tool's own code;
\* the summary names exactly the failing tools, pip-audit before bandit,
\* and the success line appears only when both returned 0.
C2_SecurityAggregates ==
    (cmd = "security" /\ ~opts.fail_fast) =>
        /\ (Len(calls) >= 1 /\ ~Exited) => pc = "bandit"
        /\ (Exited /\ venv_dir = "found") =>
             /\ Modules(calls) = <<"pip_audit", "bandit">>
             /\ exit_code \in {0, 1}
             /\ exit_code = 1 <=> (calls[1].code # 0 \/ calls[2].code # 0)
             /\ (calls[1].code # 0 /\ calls[2].code # 0) =>
                  Last(out) = "Security checks failed: pip-audit, bandit"
             /\ (calls[1].code # 0 /\ calls[2].code = 0) =>
                  Last(out) = "Security checks failed: pip-audit"
             /\ (calls[1].code = 0 /\ calls[2].code # 0) =>
                  Last(out) = "Security checks failed: bandit"
             /\ (calls[1].code = 0 /\ calls[2].code = 0) =>
                  Last(out) = SECURITY_PASSED
             /\ Said(SECURITY_PASSED) => exit_code = 0

\* Both tools failed, with different codes, and the run ended with status 1.
C2_Witness ==
    /\ cmd = "security"
    /\ ~opts.fail_fast
    /\ Exited
    /\ Len(calls) = 2
    /\ calls[1].code = 2
    /\ calls[2].code = 1
    /\ exit_code = 1
    /\ Last(out) = "Security checks failed: pip-audit, bandit"

\* C3: in security with --fail-fast, the first tool that returns non-zero
\* ends the run with status 1: after a failing pip_audit, bandit is never
\* invoked and the message names only pip-audit; after a passing pip_audit
\* and a failing bandit, the message names only bandit.
C3_SecurityFailFast ==
    (cmd = "security" /\ opts.fail_fast) =>
        /\ (Len(calls) >= 1 /\ calls[1].code # 0) =>
             /\ Len(calls) = 1
             /\ Exited
             /\ exit_code = 1
             /\ Last(out) = "Security checks failed: pip-audit"
             /\ ~Said("Security checks failed: bandit")
             /\ ~Said("Security checks failed: pip-audit, bandit")
        /\ (Len(calls) = 2 /\ calls[2].code # 0) =>
             /\ calls[1].code = 0
             /\ Exited
             /\ exit_code = 1
             /\ Last(out) = "Security checks failed: bandit"
             /\ ~Said("Security checks failed: pip-audit")

\* pip_audit failed under --fail-fast and the run ended without bandit.
C3_Witness ==
    /\ cmd = "security"
    /\ opts.fail_fast
    /\ Exited
    /\ Modules(calls) = <<"pip_audit">>
    /\ calls[1].code = 2
    /\ exit_code = 1

\* C4: in check, fix and security, when the locator finds no environment
\* the command exits with status 2 and invokes no tool and no git query.
C4_NoVenvExits2 ==
    venv_dir = "none" =>
        /\ Exited
        /\ exit_code = 2
        /\ calls = <<>>
        /\ gitlog = <<>>
        /\ Last(out) = NO_VENV

\* A scoped check (--changed --staged) that found no environment.
C4_Witness ==
    /\ cmd = "check"
    /\ opts.changed
    /\ opts.staged
    /\ venv_dir = "none"
    /\ Exited

\* check got past the scoping step with an environment and a recognized
\* formatter.
PastLint ==
    /\ cmd = "check"
    /\ venv_dir = "found"
    /\ pc \in {"check_types", "check_tests", "exit"}
    /\ ~Said(UNKNOWN_FORMATTER)

\* C5: in a scoped check (--changed), no lint, format or type-check tool is
\* ever invoked without a file target or with the whole-project target ".";
\* when the scoped target list is empty, none of them is invoked and the
\* lint/format skip and the type-check skip are each announced.
C5_EmptyScopeSkips ==
    (cmd = "check" /\ opts.changed) =>
        /\ \A i \in 1..Len(calls) :
             calls[i].module \in TargetTools =>
                 /\ Targets(calls[i]) # <<>>
                 /\ DOT \notin Range(Targets(calls[i]))
        /\ (PastLint /\ files = <<>>) =>
             /\ \A i \in 1..Len(calls) : calls[i].module \notin TargetTools
             /\ Said(SKIP_LINT)
             /\ pc \in {"check_tests", "exit"} => Said(SKIP_TYPES)

\* A scoped check with --fix and black that found nothing to check, skipped
\* both stages and passed.
C5_Witness ==
    /\ cmd = "check"
    /\ opts.changed
    /\ opts.fix
    /\ cfg.formatter = "black"
    /\ Exited
    /\ exit_code = 0
    /\ files = <<>>
    /\ Said(SKIP_LINT)
    /\ Said(SKIP_TYPES)

\* check reached its end or its test stage's verdict: an environment was
\* found, the configuration was recognized and no earlier tool failed.
EarlierStagesPassed ==
    /\ cmd = "check"
    /\ Exited
    /\ venv_dir = "found"
    /\ ~Said(UNKNOWN_FORMATTER)
    /\ ~Said(UNKNOWN_TYPECHECKER)
    /\ \A i \in 1..Len(calls) :
         calls[i].module # "pytest" => calls[i].code = 0

\* C6: once the earlier stages of check have not failed, pytest is invoked
\* if and only if run_tests holds and neither --fast nor --no-tests is
\* given; its arguments are the coverage options alone, never a file
\* target, whatever --changed/--staged and the scoped targets are.
C6_TestsWholeProject ==
    cmd = "check" =>
        /\ \A i \in 1..Len(calls) :
             calls[i].module = "pytest" =>
                 /\ Targets(calls[i]) = <<>>
                 /\ calls[i].args =
                       IF cfg.coverage_branch
                       THEN <<Opt("--cov=."), Opt("--cov-branch"),
                              Opt("--cov-report=term-missing"),
                              Opt("--cov-fail-under=85")>>
                       ELSE <<Opt("--cov=."), Opt("--cov-report=term-missing"),
                              Opt("--cov-fail-under=85")>>
        /\ EarlierStagesPassed =>
             ("pytest" \in Range(Modules(calls))
                 <=> (cfg.run_tests /\ ~opts.fast /\ ~opts.no_tests))

\* A scoped check with nothing to lint that still ran pytest, alone.
C6_Witness ==
    /\ cmd = "check"
    /\ opts.changed
    /\ Exited
    /\ files = <<>>
    /\ Said(SKIP_LINT)
    /\ Modules(calls) = <<"pytest">>

\* Whether a path ends in .py or .pyi, read off its last characters.
IsSource(p) ==
    LET n == Len(p)
    IN  \/ n >= 3 /\ p[n - 2] = "." /\ p[n - 1] = "p" /\ p[n] = "y"
        \/ n >= 4 /\ p[n - 3] = "." /\ p[n - 2] = "p" /\ p[n - 1] = "y"
                  /\ p[n] = "i"

\* C7: the scoped targets are the entries of the ChangeSet, in its order,
\* that end in .py or .pyi, resolve inside the root and exist there as
\* regular files; every lint, format and type-check tool of a scoped run is
\* handed exactly that list.
C7_ScopedTargets ==
    (cmd = "check" /\ opts.changed) =>
        /\ pc = "check_lint" =>
             files = SelectSeq(changed_candidates,
                               LAMBDA p : /\ IsSource(p)
                                          /\ fs[p].inside
                                          /\ fs[p].is_file)
        /\ \A i \in 1..Len(calls) :
             calls[i].module \in TargetTools => Targets(calls[i]) = files

\* A ChangeSet of three entries of which one is not a source file and one
\* is a regular file outside the root: only the third is a target.
C7_Witness ==
    /\ cmd = "check"
    /\ opts.changed
    /\ pc = "check_lint"
    /\ Len(changed_candidates) = 3
    /\ C_MD \in Range(changed_candidates)
    /\ Len(files) = 1
    /\ \E p \in DOMAIN fs : fs[p].is_file /\ ~fs[p].inside

-----------------------------------------------------------------------------
(* Properties of the resolver.                                             *)

NoRepeats(s) == \A i, j \in 1..Len(s) : s[i] = s[j] => i = j

\* Where a path first appears among the lines git printed.
FirstSeen(p, lines) ==
    CHOOSE k \in 1..Len(lines) :
        /\ Strip(lines[k]) = p
        /\ \A m \in 1..(k - 1) : Strip(lines[m]) # p

\* changed(root) has returned.
ChangedReturned == cmd = "changed" /\ pc = "done"

\* C8: changed(root) returns the paths git printed, the tracked-changed
\* ones and then the untracked ones, each without surrounding whitespace,
\* without the blank lines, each once and at the place of its first
\* occurrence.
C8_ChangedUnion ==
    ChangedReturned =>
        /\ NoRepeats(changed_candidates)
        /\ Range(changed_candidates)
              = {Strip(l) : l \in Range(git_out)} \ {<<>>}
        /\ \A i \in 1..Len(changed_candidates) :
             LET p == changed_candidates[i]
             IN  /\ p # <<>>
                 /\ p[1] \notin Whitespace
                 /\ p[Len(p)] \notin Whitespace
        /\ \A i, j \in 1..Len(changed_candidates) :
             i < j => FirstSeen(changed_candidates[i], git_out)
                        < FirstSeen(changed_candidates[j], git_out)

\* The tracked side printed a padded a.py and b.pyi, the untracked side
\* a.py again: a.py stays first and appears once.
C8_Witness ==
    /\ ChangedReturned
    /\ Last(gitlog) = LS_FILES
    /\ Len(git_out) = 4
    /\ git_out[1] = A_PY_PADDED
    /\ git_out[2] = B_PYI
    /\ git_out[4] = A_PY
    /\ changed_candidates = <<A_PY, B_PYI>>

\* C9: the ChangeSet a scoped check works from, produced by staged(root) or
\* by changed(root), has no repeated entry, whatever git printed.
C9_ChangeSetNoRepeats ==
    (cmd = "check" /\ pc = "check_filter") => NoRepeats(changed_candidates)

\* C10: staged(root) and changed(root) never raise; staged returns the
\* empty list when its query exits non-zero, cannot be started or times
\* out; changed returns the empty list, without a further query, when each
\* of its three tracked-side queries fails in one of those ways.
C10_ResolverNeverRaises ==
    /\ pc # "raised"
    /\ (cmd = "staged" /\ pc = "done" /\ git_how[1] # "ok") =>
          changed_candidates = <<>>
    /\ (cmd = "changed" /\ Len(git_how) >= 3
          /\ \A i \in 1..3 : git_how[i] # "ok") =>
          /\ pc = "done"
          /\ gitlog = <<DIFF_HEAD, DIFF, DIFF_CACHED>>
          /\ changed_candidates = <<>>

\* changed(root) returned after a timeout, a missing executable and a
\* non-zero exit of its three tracked-side queries.
C10_Witness ==
    /\ ChangedReturned
    /\ git_how = <<"timeout", "oserror", "nonzero">>
    /\ changed_candidates = <<>>

-----------------------------------------------------------------------------
(* Properties of the git-state warning.                                    *)

\* A scoped check has resolved and filtered its change set and has not yet
\* started its first stage.
Scoped == cmd = "check" /\ opts.changed /\ pc = "check_lint"

\* How the rev-parse queries of the run ended.
RevParseAnswers ==
    {git_how[i] : i \in {j \in 1..Len(gitlog) : gitlog[j] = REV_PARSE}}

\* C11: in a scoped check the warning that git state could not be read is
\* printed if and only if the resolved ChangeSet is empty and git, asked
\* once, did not confirm that the root is inside a work tree; with an empty
\* ChangeSet inside a work tree no warning is printed.  The warning is never
\* printed in an unscoped run, nor together with a file target.
C11_GitStateWarning ==
    /\ Scoped =>
         /\ Said(NO_GIT_STATE)
              <=> (changed_candidates = <<>> /\ RevParseAnswers # {}
                      /\ "ok" \notin RevParseAnswers)
         /\ changed_candidates = <<>> =>
              Len(SelectSeq(gitlog, LAMBDA q : q = REV_PARSE)) = 1
         /\ (changed_candidates = <<>> /\ "ok" \in RevParseAnswers) =>
              ~Said(NO_GIT_STATE)
    /\ (cmd = "check" /\ Said(NO_GIT_STATE)) =>
         /\ opts.changed
         /\ files = <<>>

\* The true-empty case: every query succeeded, nothing has changed, the root
\* is inside a work tree, and no warning was printed.
C11_Witness ==
    /\ Scoped
    /\ ~opts.staged
    /\ gitlog = <<DIFF_HEAD, REV_PARSE, LS_FILES>>
    /\ git_how = <<"ok", "ok", "ok">>
    /\ changed_candidates = <<>>
    /\ ~Said(NO_GIT_STATE)

\* C12: whenever a git query issued while the change set of a scoped check
\* is resolved fails (non-zero exit, timeout or missing executable), the
\* run does not crash and prints a warning.
C12_FailedQueryWarns ==
    /\ cmd = "check" => pc # "raised"
    /\ (Scoped /\ \E i \in 1..Len(git_how) : git_how[i] # "ok") =>
          Said(NO_GIT_STATE)

-----------------------------------------------------------------------------
(* Properties of find_venv, checked under SpecFindVenv.                    *)

\* The directories find_venv considers, in its order of preference.
Candidates ==
    (IF env.configured \in {CUSTOM, ".venv"} THEN <<env.configured>> ELSE <<>>)
    \o (IF env.inside_venv THEN <<ACTIVE>> ELSE <<>>)
    \o <<".venv", "venv", "env">>

\* An interpreter binary exists in d, in either layout.
HasPython(d) == env.bins[d] # {}

FindVenvReturned == cmd = "find_venv" /\ pc = "done"

-----------------------------------------------------------------------------
(* Properties of load_config, checked under SpecLoadConfig.                *)

LoadConfigReturned == cmd = "load_config" /\ pc = "done"

\* The raw value is a str that, trimmed and lower-cased, is one of `allowed`.
Recognized(value, allowed) ==
    /\ value.type = "str"
    /\ \E a \in allowed : Text(Lower(Strip(value.s))) = a

\* C14: a raw formatter or type-checker value that is not a str, or that is
\* not one of the recognized names once trimmed and lower-cased, resolves
\* to the default (ruff, mypy) and never to what was written; a recognized
\* value resolves to its trimmed lower-case form.
C14_ChoiceOrDefault ==
    LoadConfigReturned =>
        /\ cfg.formatter \in {"ruff", "black"}
        /\ cfg.typechecker \in {"mypy", "pyright"}
        /\ IF Recognized(Devr.formatter, {"ruff", "black"})
           THEN cfg.formatter = Text(Lower(Strip(Devr.formatter.s)))
           ELSE cfg.formatter = "ruff"
        /\ IF Recognized(Devr.typechecker, {"mypy", "pyright"})
           THEN cfg.typechecker = Text(Lower(Strip(Devr.typechecker.s)))
           ELSE cfg.typechecker = "mypy"

\* " Black<tab>" resolved to black and "Pytype" to the default mypy.
C14_Witness ==
    /\ LoadConfigReturned
    /\ env.fields.formatter = Str(<<" ", "B", "l", "a", "c", "k", "\t">>)
    /\ cfg.formatter = "black"
    /\ env.fields.typechecker = Str(<<"P", "y", "t", "y", "p", "e">>)
    /\ cfg.typechecker = "mypy"

\* The raw coverage minimum is a number outside [0, 100].
OutsideRange(value) ==
    \/ value.type = "int" /\ (value.n < 0 \/ value.n > 100)
    \/ value.type = "float" /\ (value.n < 0 \/ value.n > 1000)
    \/ value.type = "inf"
    \/ value.type = "str" /\ IntOf(value).how = "ok"
          /\ (IntOf(value).val < 0 \/ IntOf(value).val > 100)

\* The raw coverage minimum is no number at all.
NonNumeric(value) ==
    \/ value.type \in {"list", "absent", "nan"}
    \/ value.type = "str" /\ IntOf(value).how # "ok"

\* C15: a raw coverage minimum that is a bool, is not a number, or is a
\* number outside [0, 100] resolves to the default 85; whatever the input,
\* the resolved coverage_min is an integer in 0..100.
C15_CoverageMinOrDefault ==
    LoadConfigReturned =>
        /\ cfg.coverage_min \in 0..100
        /\ (\/ Devr.coverage_min.type = "bool"
            \/ NonNumeric(Devr.coverage_min)
            \/ OutsideRange(Devr.coverage_min)) => cfg.coverage_min = 85

\* C16: load_config never raises: an absent file, a file that cannot be
\* decoded or parsed, and an absent or non-table section give the
\* all-defaults configuration, and no raw value of a field makes it raise.
C16_LoadConfigNeverRaises ==
    cmd = "load_config" =>
        /\ env.file # "unreadable" => pc # "raised"
        /\ (/\ pc = "done"
            /\ \/ env.file \in {"absent", "malformed", "not_utf8"}
               \/ env.tool # "table"
               \/ env.devr # "table") => cfg = DefaultConfig

-----------------------------------------------------------------------------
(* Properties of the exit statuses of check and fix, checked under Spec.   *)

\* The calls of the format/lint stage.
LintCalls == SelectSeq(calls, LAMBDA c : c.module \in {"ruff", "black"})

\* C17: in check, whatever the flags and the change set, an unrecognized
\* formatter ends the run with status 2 before any tool is invoked, and an
\* unrecognized type checker ends the run with status 2 once format/lint
\* has not failed, with no type checker and no test runner invoked.
C17_UnknownToolExits2 ==
    (cmd = "check" /\ venv_dir = "found"
        /\ pc \in {"check_format", "check_types", "check_tests", "exit"}) =>
        /\ cfg.formatter \notin {"ruff", "black"} =>
             /\ Exited
             /\ exit_code = 2
             /\ calls = <<>>
        /\ (/\ cfg.formatter \in {"ruff", "black"}
            /\ cfg.typechecker \notin {"mypy", "pyright"}
            /\ Exited
            /\ \A i \in 1..Len(LintCalls) : LintCalls[i].code = 0) =>
             /\ exit_code = 2
             /\ calls = LintCalls

\* C18: whenever check or fix exits with status 2, the cause is a setup
\* error (no environment found, or an unrecognized formatter or type
\* checker) and no invoked tool has failed.
C18_Status2IsSetupError ==
    (cmd \in {"check", "fix"} /\ Exited /\ exit_code = 2) =>
        /\ \/ venv_dir = "none"
           \/ Said(UNKNOWN_FORMATTER)
           \/ Said(UNKNOWN_TYPECHECKER)
        /\ \A i \in 1..Len(calls) : calls[i].code = 0

-----------------------------------------------------------------------------
(* Properties of write_precommit and install_project, checked under        *)
(* SpecSetup.                                                              *)

\* How many times a line was echoed.
Echoed(line) == Len(SelectSeq(out, LAMBDA l : l = line))

\* C19: write_precommit writes the fixed default content if and only if
\* .pre-commit-config.yaml does not exist; an existing file is left as it
\* was and the 'already exists' notice is printed; so a second call in a
\* row writes nothing and leaves the file of the first call.
C19_WritePrecommitOnce ==
    (cmd = "write_precommit" /\ env.runs >= 1) =>
        IF env.initial.exists
        THEN /\ env.precommit = env.initial
             /\ env.writes = 0
             /\ Echoed(PRECOMMIT_EXISTS) = env.runs
        ELSE /\ env.precommit = [exists |-> TRUE,
                                 text |-> PRECOMMIT_LOCAL_HOOK_YAML]
             /\ env.writes = 1
             /\ Echoed(PRECOMMIT_EXISTS) = env.runs - 1

\* Two calls in a row where there was no file: one write, then the notice.
C19_Witness ==
    /\ cmd = "write_precommit"
    /\ pc = "done"
    /\ env.runs = 2
    /\ ~env.initial.exists
    /\ env.precommit.text = PRECOMMIT_LOCAL_HOOK_YAML
    /\ env.writes = 1
    /\ Echoed(PRECOMMIT_EXISTS) = 1

PipArgs(i) == [k \in 1..Len(calls[i].args) |-> calls[i].args[k].opt]

\* C20: install_project never ends the command, whatever pip returns.  With
\* a pyproject.toml it runs the editable install, runs the non-editable one
\* only if the editable one failed, and warns if both failed; without one
\* and with a requirements.txt it runs the requirements install and warns
\* if it failed; with neither it runs nothing and prints a notice.
C20_InstallProjectBestEffort ==
    cmd = "install_project" =>
        /\ pc \in {"ip_start", "ip_fallback", "done"}
        /\ exit_code = NotExited
        /\ pc = "ip_fallback" =>
             env.pyproject /\ Len(calls) = 1 /\ calls[1].code # 0
        /\ (pc = "done" /\ env.pyproject) =>
             /\ Len(calls) \in {1, 2}
             /\ PipArgs(1) = <<"install", "-e", ".">>
             /\ Len(calls) = 2 <=> calls[1].code # 0
             /\ Len(calls) = 2 => PipArgs(2) = <<"install", ".">>
             /\ Said(PROJECT_INSTALL_FAILED)
                  <=> (Len(calls) = 2 /\ calls[2].code # 0)
             /\ ~Said(REQS_INSTALL_FAILED)
        /\ (pc = "done" /\ ~env.pyproject /\ env.reqs) =>
             /\ Len(calls) = 1
             /\ PipArgs(1) = <<"install", "-r", "requirements.txt">>
             /\ Said(REQS_INSTALL_FAILED) <=> calls[1].code # 0
        /\ (pc = "done" /\ ~env.pyproject /\ ~env.reqs) =>
             /\ calls = <<>>
             /\ out = <<NOTHING_TO_INSTALL>>
        /\ \A i \in 1..Len(calls) :
             PipArgs(i) = <<"install", "-r", "requirements.txt">>
                => ~env.pyproject

\* Both files exist and both project installs failed: the warning is
\* printed, the requirements file is not tried, and the helper returned.
C20_Witness ==
    /\ cmd = "install_project"
    /\ pc = "done"
    /\ env.pyproject
    /\ env.reqs
    /\ Len(calls) = 2
    /\ calls[1].code = 1
    /\ calls[2].code = 2
    /\ Said(PROJECT_INSTALL_FAILED)

-----------------------------------------------------------------------------
(* Further properties of check, checked under Spec.                        *)

\* check runs without --changed.
Unscoped == cmd = "check" /\ ~opts.changed

\* C21: without --changed every lint, format and type-check invocation of
\* check receives exactly the whole-project target ".", with or without
\* --staged; no git query is issued, no stage is skipped for lack of
\* targets, and --staged alone only adds its warning.
C21_UnscopedWholeProject ==
    Unscoped =>
        /\ gitlog = <<>>
        /\ files = <<>>
        /\ \A i \in 1..Len(calls) :
             calls[i].module \in TargetTools => Targets(calls[i]) = <<DOT>>
        /\ ~Said(SKIP_LINT)
        /\ ~Said(SKIP_TYPES)
        /\ ~Said(NO_GIT_STATE)
        /\ pc # "start" => (Said(STAGED_NO_EFFECT) <=> opts.staged)
        /\ pc \notin {"staged_files", "cf_diff_head", "cf_diff",
                      "cf_diff_cached", "cf_is_git_repo", "cf_untracked",
                      "check_filter", "raised"}

\* check --staged alone ran the linter, the formatter and the type checker
\* on "." after its warning.
C21_Witness ==
    /\ Unscoped
    /\ opts.staged
    /\ Said(STAGED_NO_EFFECT)
    /\ Len(calls) >= 3
    /\ calls[3].module \in {"mypy", "pyright"}
    /\ \A i \in 1..3 : Targets(calls[i]) = <<DOT>>

\* The headers _run_check_stage prints.
StageLines ==
    {Stage(n) : n \in {"ruff check --fix", "ruff check", "ruff format",
                       "ruff format --check", "black", "black --check",
                       "mypy", "pyright", "pytest"}}

\* C22: in check every tool invocation is preceded by the header of its
\* stage, and every stage that is skipped prints a notice saying why:
\* lint/format and type-check for lack of targets, the test stage because
\* of --fast, --no-tests or the run_tests setting.
C22_StagesAnnounced ==
    cmd = "check" =>
        /\ Len(SelectSeq(out, LAMBDA l : l \in StageLines)) = Len(calls)
        /\ \A k \in 1..Len(out) :
             out[k] \in StageLines =>
                 k < Len(out) /\ out[k + 1] \in {Running(m) : m \in
                     {"ruff", "black", "mypy", "pyright", "pytest"}}
        /\ EarlierStagesPassed =>
             \/ "pytest" \in Range(Modules(calls))
             \/ Said(SKIP_NO_TESTS)
             \/ Said(SKIP_FAST)

-----------------------------------------------------------------------------
(* Further properties of the resolver, checked under SpecChangeSet.        *)

Fails(how) == how # "ok"

\* changed(root) returned after its query against the last commit failed.
FellBack == ChangedReturned /\ Fails(git_how[1])

\* What holds of the result once changed(root) has fallen back.
FallbackResult ==
    FellBack =>
        /\ Len(gitlog) >= 3
        /\ gitlog[2] = DIFF
        /\ gitlog[3] = DIFF_CACHED
        /\ (Fails(git_how[2]) /\ Fails(git_how[3])) =>
              /\ Len(gitlog) = 3
              /\ changed_candidates = <<>>
        /\ NoRepeats(changed_candidates)
        /\ Range(changed_candidates)
              = {Strip(l) : l \in Range(git_out)} \ {<<>>}
        /\ \A i, j \in 1..Len(changed_candidates) :
             i < j => FirstSeen(changed_candidates[i], git_out)
                        < FirstSeen(changed_candidates[j], git_out)

\* The step that reads the staged-index diff: the lines seen so far are
\* those of the no-base diff, if it succeeded, and then those of the
\* staged-index diff, if it succeeded.
FallbackStep ==
    (cmd = "changed" /\ pc = "cf_diff_cached" /\ pc' # "raised") =>
        LET no_base == IF unstaged.isNone THEN <<>>
                       ELSE SplitLines(unstaged.stdout)
        IN  /\ Len(git_out') >= Len(no_base)
            /\ SubSeq(git_out', 1, Len(no_base)) = no_base
            /\ Fails(Last(git_how')) => git_out' = no_base
            /\ pc' = "cf_untracked" => tracked_lines' # <<>>

\* The step that reads the untracked files: their lines come after the
\* tracked side.
UntrackedStep ==
    (cmd = "changed" /\ pc = "cf_untracked" /\ pc' # "raised") =>
        /\ Len(git_out') >= Len(git_out)
        /\ SubSeq(git_out', 1, Len(git_out)) = git_out
        /\ Fails(Last(git_how')) => git_out' = git_out

-----------------------------------------------------------------------------
(* Further properties of find_venv and venv_python, checked under          *)
(* SpecFindVenv.                                                           *)

\* The configured path names an environment with an interpreter.
ConfiguredUsable == Truthy(env.configured) /\ HasPython(env.configured)

\* C24: when the configured path has no usable environment and the process
\* runs inside an active environment, find_venv returns the location of the
\* active environment (sys.prefix).
C24_ActiveWhenConfiguredMissing ==
    (FindVenvReturned /\ ~ConfiguredUsable /\ env.inside_venv) =>
        venv_dir = ACTIVE

\* The interpreter binary of the platform and that of the other platform.
Preferred == IF env.os_name = "nt" THEN WINDOWS_PYTHON ELSE POSIX_PYTHON
Alternate == IF env.os_name = "nt" THEN POSIX_PYTHON ELSE WINDOWS_PYTHON

\* C25: venv_python returns the alternate layout's path exactly when the
\* preferred path does not exist and the alternate one does; in every other
\* case it returns the preferred path, also when that path is absent.
C25_AlternateOnlyWhenPreferredMissing ==
    cmd = "find_venv" =>
        \A d \in VenvDirs :
            LET py == VenvPython(env.bins, env.os_name, d)
            IN  /\ py = Alternate
                     <=> (Preferred \notin env.bins[d]
                            /\ Alternate \in env.bins[d])
                /\ py # Alternate => py = Preferred

\* On Windows find_venv has returned .venv, which has only the POSIX binary;
\* for env, which has neither, venv_python still names the Windows binary.
C25_Witness ==
    /\ FindVenvReturned
    /\ env.os_name = "nt"
    /\ env.bins[".venv"] = {POSIX_PYTHON}
    /\ venv_dir = ".venv"
    /\ VenvPython(env.bins, env.os_name, ".venv") = POSIX_PYTHON
    /\ env.bins["env"] = {}
    /\ VenvPython(env.bins, env.os_name, "env") = WINDOWS_PYTHON

-----------------------------------------------------------------------------
(* Properties of init, checked under SpecInit.                             *)

\* The position of a process in init's order of steps: the creation of the
\* environment, the pip bootstrap, the toolchain install, the project
\* install, the hook install.
InitRank(call) ==
    IF call.module = "venv" THEN 1
    ELSE IF call.module = "pre_commit" THEN 5
    ELSE IF Opt("-U") \in Range(call.args) THEN 2
    ELSE IF Opt(DEFAULT_TOOLCHAIN) \in Range(call.args) THEN 3
    ELSE 4

InitRanks == [i \in 1..Len(calls) |-> InitRank(calls[i])]

\* init has gone past its interpreter check.
PastInitPython ==
    pc \in {"et_pip", "et_tools", "ip_start", "ip_fallback", "init_precommit",
            "wp_start", "iph_start", "exit"}

\* The steps init has taken so far are in its order, each after the success
\* of the ones before it, and a fatal failure is the last thing done.
InitFailStop ==
    cmd = "init" =>
        /\ \A i, j \in 1..Len(calls) :
             i < j => /\ InitRanks[i] <= InitRanks[j]
                      /\ InitRanks[i] = InitRanks[j] => InitRanks[i] = 4
        /\ \A k \in 1..Len(calls) :
             /\ InitRanks[k] = 3 => k > 1 /\ InitRanks[k - 1] = 2
             /\ InitRanks[k] = 4 => 3 \in Range(InitRanks)
             /\ InitRanks[k] = 5 => 3 \in Range(InitRanks)
             /\ (InitRanks[k] \in {1, 2, 3} /\ calls[k].code # 0) =>
                  /\ k = Len(calls)
                  /\ IF InitRanks[k] = 1 THEN pc = "raised"
                     ELSE Exited /\ exit_code = calls[k].code
                  /\ env.runs = 0
                  /\ gitlog = <<>>
        /\ pc = "raised" =>
             /\ Last(out) = CREATING_VENV
             /\ \A k \in 1..Len(calls) : InitRanks[k] = 1
             /\ env.runs = 0
             /\ gitlog = <<>>
        /\ (PastInitPython /\ ~PythonExists(venv_dir)) =>
             /\ Exited
             /\ exit_code = 2
             /\ \A k \in 1..Len(calls) : InitRanks[k] = 1
             /\ env.runs = 0
             /\ gitlog = <<>>
        /\ env.runs = 1 =>
             /\ 3 \in Range(InitRanks)
             /\ env.precommit.exists
             /\ Said(SETTING_UP_PRECOMMIT)
        /\ gitlog # <<>> => env.runs = 1
        /\ (Exited /\ exit_code = 0) =>
             /\ gitlog = <<REV_PARSE>>
             /\ Said(INIT_DONE)
             /\ \A k \in 1..Len(calls) : InitRanks[k] # 4 => calls[k].code = 0

\* The step after find_venv creates the environment exactly when none of
\* the candidates had an interpreter.
CreateStep ==
    (cmd = "init" /\ pc = "init_venv") =>
        /\ (CREATING_VENV \in Range(out'))
              <=> \A i \in 1..Len(Candidates) : ~HasPython(Candidates[i])
        /\ (USING_VENV \in Range(out')) <=> ~(CREATING_VENV \in Range(out'))
        /\ (calls' # <<>>) => CREATING_VENV \in Range(out')

\* C26: init is a fail-stop sequence: create the environment (only when the
\* locator found none), check that its interpreter exists (else status 2),
\* upgrade pip, install the toolchain, install the project, write the
\* pre-commit file, install the hook.  A failed creation propagates, a
\* non-zero pip bootstrap or toolchain install exits with that code, and in
\* each of these cases no later step executes.
C26_InitFailStop ==
    /\ [][CreateStep]_vars
    /\ []InitFailStop

\* The environment was created, pip was upgraded, and the toolchain install
\* returned 2: init has exited with 2 and nothing else has run.
C26_Witness ==
    /\ cmd = "init"
    /\ Exited
    /\ exit_code = 2
    /\ InitRanks = <<1, 2, 3>>
    /\ calls[3].code = 2
    /\ env.runs = 0

-----------------------------------------------------------------------------
(* Termination, checked under SpecFair.                                    *)

\* The statements of staged(root) and changed(root).
ResolverPcs ==
    {"staged_files", "cf_diff_head", "cf_diff", "cf_diff_cached",
     "cf_is_git_repo", "cf_untracked"}

\* C28: the resolution of the change set always terminates: every query
\* completes or is abandoned at its timeout, so a git that hangs cannot
\* block check, and a check run whose tools all terminate reaches a
\* terminal status.
C28_AlwaysTerminates ==
    /\ [](pc # "hung")
    /\ (pc \in ResolverPcs) ~> (pc = ReturnPc)
    /\ (cmd = "check") ~> (Exited /\ exit_code # NotExited)

\* All four queries of changed(root) timed out and check has gone on to its
\* first stage.
C28_Witness ==
    /\ cmd = "check"
    /\ pc = "check_lint"
    /\ git_how = <<"timeout", "timeout", "timeout", "timeout">>

-----------------------------------------------------------------------------
(* check --fix, checked under Spec.                                        *)

IsLint(call) == call.module = "ruff" /\ Opt("check") \in Range(call.args)
IsFormat(call) ==
    \/ call.module = "black"
    \/ call.module = "ruff" /\ Opt("format") \in Range(call.args)

\* C29: in check --fix, with either formatter, the linter is invoked with
\* --fix and the formatter in write mode (ruff format, or black, without
\* --check).
C29_FixAppliesBoth ==
    (cmd = "check" /\ opts.fix) =>
        \A k \in 1..Len(calls) :
            /\ IsLint(calls[k]) => Opt("--fix") \in Range(calls[k].args)
            /\ IsFormat(calls[k]) => Opt("--check") \notin Range(calls[k].args)

-----------------------------------------------------------------------------
(* load_config followed by check or fix, checked under SpecLoaded.         *)

\* load_config has returned to check or fix.
ConfigLoaded ==
    /\ cmd \in {"check", "fix"}
    /\ pc \notin {"lc_read", "lc_section", "lc_fields", "raised"}

\* C30: when check or fix runs on what load_config returned, the 'unknown
\* formatter' and 'unknown typechecker' exits are unreachable: the
\* configuration always has formatter ruff or black and type checker mypy or
\* pyright, so an exit with status 2 that is not the status of a tool can
\* only come from the missing environment.
C30_UnknownToolUnreachable ==
    ConfigLoaded =>
        /\ cfg.formatter \in {"ruff", "black"}
        /\ cfg.typechecker \in {"mypy", "pyright"}
        /\ ~Said(UNKNOWN_FORMATTER)
        /\ ~Said(UNKNOWN_TYPECHECKER)
        /\ (Exited /\ exit_code = 2
               /\ \A k \in 1..Len(calls) : calls[k].code = 0) =>
             /\ venv_dir = "none"
             /\ Said(NO_VENV)
             /\ calls = <<>>

\* pyproject.toml asked for the formatter YAPF and the type checker Pytype;
\* check ran ruff and mypy and passed.
C30_Witness ==
    /\ cmd = "check"
    /\ env.file = "parsed"
    /\ env.fields.formatter = Str(<<"Y", "A", "P", "F">>)
    /\ env.fields.typechecker = Str(<<"P", "y", "t", "y", "p", "e">>)
    /\ Exited
    /\ exit_code = 0
    /\ "ruff" \in Range(Modules(calls))
    /\ "mypy" \in Range(Modules(calls))

=============================================================================
